---- MODULE Spec2Model ----
(***************************************************************************)
(* A model of the Ainux orchestration engine (src/ainux_ai/orchestration): *)
(* the safety checker, the planner's execution review and the              *)
(* orchestrator's execute -> review -> replan loop.                        *)
(***************************************************************************)
EXTENDS Naturals, Integers, Sequences, FiniteSets, TLC

VARIABLES
    pc,                 \* position of the orchestrate call
    client,             \* TRUE when a model client is wired in (with_client)
    execute,            \* the execute flag of the call
    intent,             \* the parsed Intent (its action)
    plan,               \* the current ActionPlan's steps
    safety,             \* the current SafetyReport
    safety_plan,        \* the plan the current SafetyReport was computed for
    approved_ids,       \* orchestrate's local approved_ids
    completed_ids,      \* orchestrate's local completed_ids
    pending_steps,      \* orchestrate's local pending_steps
    execution_results,  \* orchestrate's local execution_results
    reviews,            \* orchestrate's local reviews
    error,              \* message of the OrchestrationError raised, "" if none
    events,             \* the calls made on the observer, in order
    call,               \* arguments of a direct call of one component
    ret                 \* what that call returned

vars == <<pc, client, execute, intent, plan, safety, safety_plan, approved_ids,
          completed_ids, pending_steps, execution_results, reviews, error,
          events, call, ret>>

orch_vars == <<pc, client, execute, intent, plan, safety, safety_plan,
               approved_ids, completed_ids, pending_steps, execution_results,
               reviews, error, events>>

(***************************************************************************)
(* Sequences                                                               *)
(***************************************************************************)
Range(s) == {s[i] : i \in 1..Len(s)}

Ids(steps) == {steps[i].id : i \in 1..Len(steps)}

SeqsUpTo(S, n) == UNION {[1..k -> S] : k \in 0..n}

Last(seq) == seq[Len(seq)]

(***************************************************************************)
(* models.py: PlanStep, SafetyReport, ExecutionResult, PlanReview          *)
(***************************************************************************)
NoParameters == [package |-> "", module |-> "", command |-> <<>>]

PlanStep(id, action, parameters, depends_on) ==
    [id |-> id, action |-> action, parameters |-> parameters,
     depends_on |-> depends_on]

SafetyReport(approved, blocked, warnings, rationale) ==
    [approved_steps |-> approved, blocked_steps |-> blocked,
     warnings |-> warnings, rationale |-> rationale]

EmptyReport == SafetyReport(<<>>, <<>>, {}, "")

(***************************************************************************)
(* safety.py: SafetyChecker                                                *)
(***************************************************************************)
disallowed_actions == {"system.shutdown"}

DisallowedM(step) ==
    \/ step.action \in disallowed_actions
    \/ step.parameters.package # ""
    \/ step.depends_on # <<>>
Disallowed(step) == step.action \in disallowed_actions

BaselineReport(p) ==
    SafetyReport(SelectSeq(p, LAMBDA s : ~Disallowed(s)),
                 SelectSeq(p, Disallowed),
                 {[id |-> p[i].id, action |-> p[i].action] :
                      i \in {j \in 1..Len(p) : Disallowed(p[j])}},
                 "")

\* The model's reply, parsed: the steps whose id it lists are blocked.
SafetyReviewWithModel(p, resp) ==
    SafetyReport(SelectSeq(p, LAMBDA s : s.id \notin resp.blocked_ids),
                 SelectSeq(p, LAMBDA s : s.id \in resp.blocked_ids),
                 {}, resp.rationale)

\* A Python dict keyed by step id, in insertion order: a sequence of steps
\* with pairwise distinct ids.
DictHas(d, id) == \E i \in 1..Len(d) : d[i].id = id

DictSet(d, step) ==
    IF DictHas(d, step.id)
    THEN [i \in 1..Len(d) |-> IF d[i].id = step.id THEN step ELSE d[i]]
    ELSE Append(d, step)

DictPop(d, id) == SelectSeq(d, LAMBDA s : s.id # id)

RECURSIVE DictOf(_)
DictOf(steps) ==
    IF steps = <<>> THEN <<>>
    ELSE DictSet(DictOf(SubSeq(steps, 1, Len(steps) - 1)), steps[Len(steps)])

\* for step in extra.blocked_steps: block it, drop it from approved
RECURSIVE MergeBlocked(_, _)
MergeBlocked(dicts, steps) ==
    IF steps = <<>> THEN dicts
    ELSE MergeBlocked([blocked |-> DictSet(dicts.blocked, Head(steps)),
                       approved |-> DictPop(dicts.approved, Head(steps).id)],
                      Tail(steps))

\* if step.id not in baseline_blocked: baseline_approved[step.id] = step
ApproveGuardM(blocked, step) == TRUE
ApproveGuard(blocked, step) == ~DictHas(blocked, step.id)

\* for step in extra.approved_steps: approve it unless it is blocked
RECURSIVE MergeApproved(_, _)
MergeApproved(dicts, steps) ==
    IF steps = <<>> THEN dicts
    ELSE MergeApproved(
             IF ApproveGuard(dicts.blocked, Head(steps))
             THEN [dicts EXCEPT !.approved = DictSet(@, Head(steps))]
             ELSE dicts,
             Tail(steps))

MergeReports(baseline, extra) ==
    LET start == [blocked |-> DictOf(baseline.blocked_steps),
                  approved |-> DictOf(baseline.approved_steps)]
        merged == MergeApproved(MergeBlocked(start, extra.blocked_steps),
                                extra.approved_steps)
    IN SafetyReport(merged.approved, merged.blocked,
                    baseline.warnings \cup extra.warnings,
                    IF extra.rationale # "" THEN extra.rationale
                    ELSE baseline.rationale)

\* resp.kind: "none" (no client), "fail" (the call or its parsing raised one
\* of the caught errors), "ok" (a parsed reply).
SafetyReview(p, resp) ==
    IF resp.kind = "ok"
    THEN MergeReports(BaselineReport(p), SafetyReviewWithModel(p, resp))
    ELSE BaselineReport(p)

(***************************************************************************)
(* planner.py: Planner.review_execution                                    *)
(***************************************************************************)
\* The text of a result's output or error, reduced to what the planner reads
\* from it: nothing, a text with no known signature, a missing-module
\* signature naming a module, a missing-command signature naming a command.
NoMessage == [kind |-> "none", name |-> ""]

TextMessage == [kind |-> "text", name |-> ""]

ModuleMessage(name) == [kind |-> "module", name |-> name]

CommandMessage(name) == [kind |-> "command", name |-> name]

ExecutionResult(step_id, status, output, err) ==
    [step_id |-> step_id, status |-> status, output |-> output, error |-> err]

FailureStatuses == {"blocked", "error"}

Statuses == {"success", "error", "blocked", "dry_run"}

\* Python's `a or b` on optional texts
OrMessage(a, b) == IF a.kind # "none" THEN a ELSE b

OrText(a, b) == IF a # "" THEN a ELSE b

NoDependency == [type |-> "none", package |-> "", module |-> "", command |-> ""]

ExtractMissingDependency(result) ==
    LET message == OrMessage(result.error, result.output)
    IN CASE message.kind = "module" ->
                [type |-> "python", package |-> message.name,
                 module |-> message.name, command |-> ""]
         [] message.kind = "command" ->
                [type |-> "system", package |-> message.name,
                 module |-> "", command |-> message.name]
         [] OTHER -> NoDependency

\* name.replace('.', '_') and name.replace('.', '_').replace('-', '_') on the
\* names the model draws
ReplaceDots(name) ==
    CASE name = "a.b" -> "a_b"
      [] name = "x.y" -> "x_y"
      [] OTHER -> name

ReplaceDashes(name) ==
    CASE name = "x-y" -> "x_y"
      [] OTHER -> name

\* str.strip() on the names the model draws
Strip(name) ==
    CASE name = " numpy" -> "numpy"
      [] name = " " -> ""
      [] OTHER -> name

\* f"ensure_{...}" and f"install_{...}"
EnsureId(name) ==
    CASE ReplaceDots(name) = "numpy" -> "ensure_numpy"
      [] ReplaceDots(name) = " numpy" -> "ensure_ numpy"
      [] ReplaceDots(name) = "a_b" -> "ensure_a_b"
      [] ReplaceDots(name) = "x_y" -> "ensure_x_y"
      [] ReplaceDots(name) = "x-y" -> "ensure_x-y"
      [] ReplaceDots(name) = "curl" -> "ensure_curl"
      [] OTHER -> "ensure_"

InstallId(name) ==
    CASE ReplaceDashes(ReplaceDots(name)) = "curl" -> "install_curl"
      [] ReplaceDashes(ReplaceDots(name)) = "x_y" -> "install_x_y"
      [] ReplaceDashes(ReplaceDots(name)) = "a_b" -> "install_a_b"
      [] ReplaceDashes(ReplaceDots(name)) = "numpy" -> "install_numpy"
      [] OTHER -> "install_"

PlanContainsDependency(p, dependency) ==
    LET dep_type == OrText(dependency.type, "python")
        package == dependency.package
        module == OrText(dependency.module, package)
        command == OrText(dependency.command, package)
    IN IF dep_type = "system"
       THEN /\ command # ""
            /\ \E i \in 1..Len(p) :
                  LET parts == p[i].parameters.command
                  IN /\ p[i].action = "system.run_command"
                     /\ parts # <<>>
                     /\ parts[1] \in {"apt", "apt-get"}
                     /\ "install" \in Range(parts)
                     /\ command \in Range(parts)
       ELSE \E i \in 1..Len(p) :
               /\ p[i].action = "system.ensure_python_package"
               /\ \/ package # "" /\ Strip(p[i].parameters.package) = package
                  \/ module # "" /\ Strip(p[i].parameters.module) = module

\* list(dict.fromkeys(depends_on + [ensure_id]))
WithDependencyM(depends_on, ensure_id) == <<ensure_id>>
WithDependency(depends_on, ensure_id) ==
    IF ensure_id \in Range(depends_on) THEN depends_on
    ELSE Append(depends_on, ensure_id)

FirstIndex(p, id) ==
    IF \E i \in 1..Len(p) : p[i].id = id
    THEN CHOOSE i \in 1..Len(p) :
             p[i].id = id /\ \A j \in 1..(i - 1) : p[j].id # id
    ELSE 0

\* step = PlanStep(id=step.id, ..., depends_on=new_depends): the step put
\* into the new list, and the step object of the given plan afterwards
RebuildStepM(step, new_depends) ==
    [made |-> [step EXCEPT !.depends_on = new_depends],
     given |-> [step EXCEPT !.depends_on = new_depends]]
RebuildStep(step, new_depends) ==
    [made |-> [step EXCEPT !.depends_on = new_depends], given |-> step]

\* made: the steps of the new ActionPlan, which the caller holds as a new
\* plan object; given: the steps of the plan passed in, after the call.
InjectDependencyFrame(p, failing_step_id, dependency) ==
    LET dep_type == OrText(dependency.type, "python")
        package == OrText(dependency.package, dependency.module)
        module == OrText(dependency.module, package)
        command == OrText(dependency.command, package)
        at == FirstIndex(p, failing_step_id)
        depends_on == IF at > 0 THEN p[at].depends_on ELSE <<>>
        ensure_step ==
            IF dep_type = "system"
            THEN PlanStep(InstallId(command), "system.run_command",
                          [package |-> "", module |-> "",
                           command |-> <<"apt", "install", command, "-y">>],
                          depends_on)
            ELSE PlanStep(EnsureId(OrText(module, package)),
                          "system.ensure_python_package",
                          [package |-> package, module |-> module,
                           command |-> <<>>],
                          depends_on)
        step == RebuildStep(p[at], WithDependency(p[at].depends_on,
                                                  ensure_step.id))
    IN IF at = 0 THEN [made |-> Append(p, ensure_step), given |-> p]
       ELSE [made |-> SubSeq(p, 1, at - 1) \o <<ensure_step, step.made>>
                      \o SubSeq(p, at + 1, Len(p)),
             given |-> [p EXCEPT ![at] = step.given]]

InjectDependencyStep(p, failing_step_id, dependency) ==
    InjectDependencyFrame(p, failing_step_id, dependency).made

PlanReview(p, replaced, next_steps, complete, message, attempts) ==
    [plan |-> p, replaced |-> replaced, next_steps |-> next_steps,
     complete |-> complete, message |-> message, attempts |-> attempts]

CompletedIds(history) ==
    {history[i].step_id :
         i \in {j \in 1..Len(history) : history[j].status \notin FailureStatuses}}

\* failure_counts.get(step_id, 0) after the loop over the history
FailureCount(history, step_id) ==
    Cardinality({i \in 1..Len(history) :
                     /\ history[i].step_id = step_id
                     /\ history[i].status \in FailureStatuses})

\* if attempts >= 3
RetryExhaustedM(attempts) == attempts >= 4
RetryNeverExhausted(attempts) == FALSE
RetryExhausted(attempts) == attempts >= 3

\* if dependency and not self._plan_contains_dependency(plan, dependency)
Injects(p, history) ==
    /\ history # <<>>
    /\ ExtractMissingDependency(Last(history)).type # "none"
    /\ ~PlanContainsDependency(p, ExtractMissingDependency(Last(history)))

\* the steps of the plan object passed to _heuristic_review, after the call
GivenAfterHeuristicReview(p, history) ==
    IF Injects(p, history)
    THEN InjectDependencyFrame(p, Last(history).step_id,
                               ExtractMissingDependency(Last(history))).given
    ELSE p

\* replaced: review.plan is a new ActionPlan object, not the plan passed in.
\* attempts: the count annotated to the message, 0 when it is not annotated.
HeuristicReview(p, history) ==
    LET last == history[Len(history)]
        dependency == ExtractMissingDependency(last)
        inject == Injects(p, history)
        updated_plan == IF inject
                        THEN InjectDependencyStep(p, last.step_id, dependency)
                        ELSE p
        message == IF history = <<>> THEN NoMessage
                   ELSE OrMessage(last.output, last.error)
        attempts == IF history = <<>> THEN 0
                    ELSE FailureCount(history, last.step_id)
        exhausted == /\ history # <<>>
                     /\ last.status \in FailureStatuses
                     /\ RetryExhausted(attempts)
        skipped_steps == IF exhausted THEN {last.step_id} ELSE {}
        next_steps ==
            SelectSeq(updated_plan,
                      LAMBDA s : /\ s.id \notin CompletedIds(history)
                                 /\ s.id \notin skipped_steps)
    IN PlanReview(updated_plan, inject, next_steps,
                  exhausted \/ next_steps = <<>>, message,
                  IF exhausted /\ message.kind # "none" THEN attempts ELSE 0)

\* f"step_{index}"
StepIndexId(index) ==
    CASE index = 1 -> "step_1"
      [] index = 2 -> "step_2"
      [] index = 3 -> "step_3"
      [] OTHER -> "step_n"

\* A step payload with no id or no action has "" there.
ParseSteps(intent_action, steps_payload) ==
    [i \in 1..Len(steps_payload) |->
        PlanStep(OrText(steps_payload[i].id, StepIndexId(i)),
                 OrText(steps_payload[i].action,
                        OrText(intent_action, "analysis.review_request")),
                 steps_payload[i].parameters,
                 steps_payload[i].depends_on)]

\* resp.has_plan: the reply's "plan" is an object
PlannerReviewWithModel(intent_action, p, history, resp) ==
    LET updated_plan == IF resp.has_plan
                        THEN ParseSteps(intent_action, resp.plan_steps)
                        ELSE p
        seen == {history[i].step_id : i \in 1..Len(history)}
        next_steps == IF resp.next_steps # <<>>
                      THEN ParseSteps(intent_action, resp.next_steps)
                      ELSE SelectSeq(updated_plan, LAMBDA s : s.id \notin seen)
    IN PlanReview(updated_plan, resp.has_plan, next_steps, resp.complete,
                  resp.message, 0)

ReviewExecution(intent_action, p, history, resp) ==
    IF resp.kind = "ok"
    THEN PlannerReviewWithModel(intent_action, p, history, resp)
    ELSE HeuristicReview(p, history)

(***************************************************************************)
(* planner.py: Planner.create_plan                                         *)
(***************************************************************************)
\* An Intent, reduced to what create_plan branches on: its action, whether
\* its parameters look like an application launch, whether they carry source
\* code.
Intent(action, launch, has_source) ==
    [action |-> action, launch |-> launch, has_source |-> has_source]

ChainM(a, b, c) ==
    <<PlanStep(a[1], a[2], NoParameters, <<b[1]>>),
      PlanStep(b[1], b[2], NoParameters, <<>>),
      PlanStep(c[1], c[2], NoParameters, <<b[1]>>)>>

Chain(a, b, c) ==
    <<PlanStep(a[1], a[2], NoParameters, <<>>),
      PlanStep(b[1], b[2], NoParameters, <<a[1]>>),
      PlanStep(c[1], c[2], NoParameters, <<b[1]>>)>>

BuildLaunchStep ==
    PlanStep("launch_application", "system.launch_application",
             NoParameters, <<>>)

HeuristicPlan(in) ==
    CASE in.launch /\ in.action \in {"ui.assist_user", "analysis.review_request"} ->
            <<BuildLaunchStep>>
      [] in.action = "system.optimize_resources" ->
            Chain(<<"collect_metrics", "system.collect_resource_metrics">>,
                  <<"analyze_hotspots", "system.analyze_resource_hotspots">>,
                  <<"apply_tuning", "system.apply_resource_tuning">>)
      [] in.action = "process.manage" ->
            Chain(<<"list_processes", "process.enumerate">>,
                  <<"evaluate_process_actions", "process.evaluate_actions">>,
                  <<"apply_process_change", "process.apply_management">>)
      [] in.action = "ui.assist_user" ->
            Chain(<<"gather_context", "ui.collect_user_context">>,
                  <<"present_walkthrough", "ui.present_walkthrough">>,
                  <<"queue_actions", "ui.queue_actions">>)
      [] in.action = "ui.control_pointer" ->
            <<PlanStep("ensure_pointer_dependencies",
                       "system.ensure_python_package",
                       [package |-> "pyautogui", module |-> "pyautogui",
                        command |-> <<>>], <<>>),
              PlanStep("capture_pointer_state", "ui.collect_user_context",
                       NoParameters, <<"ensure_pointer_dependencies">>),
              PlanStep("apply_pointer_action", "ui.control_pointer",
                       NoParameters, <<"capture_pointer_state">>)>>
      [] in.action = "system.launch_application" -> <<BuildLaunchStep>>
      [] in.action = "system.schedule_task" ->
            Chain(<<"collect_requirements", "system.collect_task_requirements">>,
                  <<"draft_schedule", "scheduler.create_task_schedule">>,
                  <<"publish_guidance", "scheduler.publish_user_guidance">>)
      [] in.action = "system.update" ->
            <<PlanStep("refresh_package_index", "system.run_command",
                       [package |-> "", module |-> "",
                        command |-> <<"apt", "update">>], <<>>),
              PlanStep("apply_updates", "system.run_command",
                       [package |-> "", module |-> "",
                        command |-> <<"apt", "upgrade", "-y">>],
                       <<"refresh_package_index">>)>>
      [] in.action = "system.execute_low_level" ->
            IF in.has_source
            THEN <<PlanStep("compile_and_run", "system.execute_low_level",
                            NoParameters, <<>>)>>
            ELSE <<PlanStep("inspect_command", "system.inspect_command",
                            NoParameters, <<>>),
                   PlanStep("compile_and_run", "system.execute_low_level",
                            NoParameters, <<"inspect_command">>)>>
      [] OTHER ->
            IF in.launch THEN <<BuildLaunchStep>>
            ELSE <<PlanStep("analyze",
                            OrText(in.action, "analysis.review_request"),
                            NoParameters, <<>>)>>

CreatePlan(in, resp) ==
    IF resp.kind = "ok" THEN ParseSteps(in.action, resp.plan_steps)
    ELSE HeuristicPlan(in)

(***************************************************************************)
(* execution.py: CapabilityRegistry, ActionExecutor                        *)
(***************************************************************************)
\* DryRunCapability instances registered by with_client
DryRunActions ==
    {"system.collect_task_requirements", "scheduler.create_task_schedule",
     "scheduler.publish_user_guidance", "ui.collect_user_context",
     "ui.present_walkthrough", "ui.queue_actions", "analysis.review_request"}

\* the other capabilities registered by with_client
LiveActions ==
    {"system.collect_resource_metrics", "system.analyze_resource_hotspots",
     "system.apply_resource_tuning", "process.enumerate",
     "process.evaluate_actions", "process.apply_management",
     "automation.write_blueprint", "system.run_command",
     "system.launch_application", "ui.control_pointer",
     "system.execute_low_level"}

Outcome(status, output, err) ==
    [status |-> status, output |-> output, error |-> err]

\* What one capability call can produce: the names a failure text can carry
\* are drawn from these.
ModuleNames == {"numpy"}

CommandNames == {"x.y", "x-y"}

LiveOutcomes ==
    {Outcome("success", TextMessage, NoMessage),
     Outcome("error", NoMessage, TextMessage),
     Outcome("blocked", NoMessage, TextMessage)}
    \cup {Outcome("error", NoMessage, ModuleMessage(n)) : n \in ModuleNames}
    \cup {Outcome("error", NoMessage, CommandMessage(n)) : n \in CommandNames}

\* ActionExecutor.execute_plan([step]): the outcomes of the one result
StepOutcomes(step) ==
    CASE step.action \in DryRunActions ->
            {Outcome("dry_run", TextMessage, NoMessage)}
            \cup {Outcome("dry_run", ModuleMessage(n), NoMessage) :
                      n \in ModuleNames}
      [] step.action \in LiveActions -> LiveOutcomes
      [] OTHER -> {Outcome("blocked", NoMessage, TextMessage)}

(***************************************************************************)
(* What the model client can reply                                         *)
(***************************************************************************)
NoClient == [kind |-> "none"]

ModelFailure == [kind |-> "fail"]

StepPayload(id, action) ==
    [id |-> id, action |-> action, parameters |-> NoParameters,
     depends_on |-> <<>>]

\* the step lists a model reply can carry
ModelPlans ==
    {<<>>,
     <<StepPayload("a", "system.run_command")>>,
     <<StepPayload("a", "system.shutdown"),
       StepPayload("a", "system.run_command")>>,
     <<StepPayload("a", "system.run_command"),
       StepPayload("b", "system.shutdown")>>}

ModelBlockedSets == {{}, {"a"}, {"apply_updates"}}

SafetyReply(blocked_ids) ==
    [kind |-> "ok", blocked_ids |-> blocked_ids, rationale |-> "model"]

PlanReply(steps) == [kind |-> "ok", plan_steps |-> steps]

ReviewReply(has_plan, steps, next_steps, complete) ==
    [kind |-> "ok", has_plan |-> has_plan, plan_steps |-> steps,
     next_steps |-> next_steps, complete |-> complete,
     message |-> TextMessage]

SafetyResponses ==
    IF client
    THEN {ModelFailure} \cup {SafetyReply(b) : b \in ModelBlockedSets}
    ELSE {NoClient}

PlanResponses ==
    IF client
    THEN {ModelFailure} \cup {PlanReply(p) : p \in ModelPlans}
    ELSE {NoClient}

ReviewResponses ==
    IF client
    THEN {ModelFailure}
         \cup {ReviewReply(FALSE, <<>>, <<>>, c) : c \in BOOLEAN}
         \cup {ReviewReply(TRUE, p, <<>>, c) : p \in ModelPlans, c \in BOOLEAN}
    ELSE {NoClient}

\* the intents a call can start from
HeuristicIntents ==
    {Intent("analysis.review_request", FALSE, FALSE),
     Intent("system.launch_application", FALSE, FALSE),
     Intent("system.update", FALSE, FALSE)}

\* a model-backed parser can also name an action the keyword rules never
\* produce
ModelIntents ==
    {Intent("analysis.review_request", FALSE, FALSE),
     Intent("system.shutdown", FALSE, FALSE)}

Intents == IF client THEN ModelIntents ELSE HeuristicIntents

(***************************************************************************)
(* orchestrator.py: AinuxOrchestrator.orchestrate                          *)
(***************************************************************************)
MaxHistory == 2

\* if not safety.approved_steps and plan.steps: raise OrchestrationError
AllBlockedM(report, p) == report.approved_steps = <<>> /\ p # <<>> /\ execute
AllBlocked(report, p) == report.approved_steps = <<>> /\ p # <<>>

\* if result.status not in {"blocked", "error"}: completed_ids.add(...)
CompletesM(result) == result.status = "success"
Completes(result) == result.status \notin FailureStatuses

\* if review.plan is not plan: ... if not safety.approved_steps and plan.steps
ReplanBlockedM(review, report) ==
    review.replaced /\ ~review.complete /\ AllBlocked(report, review.plan)
ReplanRaisesM(review, report) == review.replaced
ReplanBlocked(review, report) ==
    review.replaced /\ AllBlocked(report, review.plan)

\* safety = self.safety_checker.review(plan, ...) inside
\* `if review.plan is not plan:`
ReviewedSafetyM(review, report, current) == current
ReviewedSafety(review, report, current) ==
    IF review.replaced THEN report ELSE current

\* [step for step in plan.steps if step.id not in completed_ids
\*                                 and step.id in approved_ids]
PendingM(p, completed, approved) ==
    LET q == SelectSeq(p, LAMBDA s : s.id \notin completed /\ s.id \in approved)
    IN [i \in 1..Len(q) |-> q[Len(q) + 1 - i]]
Pending(p, completed, approved) ==
    SelectSeq(p, LAMBDA s : s.id \notin completed /\ s.id \in approved)

\* observer.on_stage(name, ...), on_step_start(step, ...),
\* on_step_result(result), on_review(review)
OnStage(name) == <<"on_stage", name>>

OnStepStart(step) == <<"on_step_start", step.id>>

OnStepResult(result) == <<"on_step_result", result.step_id>>

OnReview == <<"on_review", "">>

\* the stages announced when a review returned another plan object
ReplanStagesM(review) ==
    IF review.replaced THEN <<OnStage("replan")>> ELSE <<>>
ReplanStages(review) ==
    IF review.replaced THEN <<OnStage("replan"), OnStage("safety")>> ELSE <<>>

\* the stage announced when the call returns
Complete(position) ==
    IF position = "done" THEN <<OnStage("complete")>> ELSE <<>>

\* review_execution(intent, plan, execution_results, combined_context): the
\* history handed to the review
ReviewHistoryM(results) == <<Last(results)>>
ReviewHistory(results) == results

\* if execute and safety.approved_steps
EntersLoopM(report) == report.approved_steps # <<>>
EntersLoop(report) == execute /\ report.approved_steps # <<>>

OrchInit ==
    /\ pc = "start"
    /\ client \in BOOLEAN
    /\ execute \in BOOLEAN
    /\ intent \in Intents
    /\ plan = <<>>
    /\ safety = EmptyReport
    /\ safety_plan = <<>>
    /\ approved_ids = {}
    /\ completed_ids = {}
    /\ pending_steps = <<>>
    /\ execution_results = <<>>
    /\ reviews = <<>>
    /\ error = ""
    /\ events = <<>>

NoCall == [fn |-> "none", returned |-> FALSE]

NoReturn == [kind |-> "none"]

Init ==
    /\ OrchInit
    /\ call = NoCall
    /\ ret = NoReturn

\* orchestrate up to the loop: the parsed intent, plan, safety review, and
\* the dry-run branch's single review
Start ==
    /\ pc = "start"
    /\ \E presp \in PlanResponses, sresp \in SafetyResponses,
          rresp \in ReviewResponses :
          LET in == intent
              p == CreatePlan(in, presp)
              report == SafetyReview(p, sresp)
              ids == Ids(report.approved_steps)
          IN /\ plan' = p
             /\ safety' = report
             /\ safety_plan' = p
             /\ events' =
                  <<OnStage("start"), OnStage("intent"), OnStage("plan"),
                    OnStage("safety")>>
                  \o (IF AllBlocked(report, p) THEN <<>>
                      ELSE IF EntersLoop(report)
                      THEN <<OnStage("execution")>>
                      ELSE <<OnStage("execution_skipped"),
                             OnStage("complete")>>)
             /\ IF AllBlocked(report, p)
                THEN /\ pc' = "error"
                     /\ error' = "All plan steps were blocked by safety checks"
                     /\ UNCHANGED <<approved_ids, pending_steps, reviews>>
                ELSE IF EntersLoop(report)
                THEN /\ pc' = "loop"
                     /\ approved_ids' = ids
                     /\ pending_steps' = SelectSeq(p, LAMBDA s : s.id \in ids)
                     /\ UNCHANGED <<error, reviews>>
                ELSE /\ pc' = "done"
                     /\ reviews' =
                          IF ~execute
                          THEN <<ReviewExecution(in.action, p, <<>>, rresp)>>
                          ELSE reviews
                     /\ UNCHANGED <<error, approved_ids, pending_steps>>
    /\ UNCHANGED <<client, execute, intent, completed_ids, execution_results,
                   call, ret>>

\* the specifications that bound the execution list by themselves
OwnBound == {"model_retry", "heuristic_planner"}

\* one pass of `while pending_steps:` up to the review: pop, execute, record
ExecuteStep ==
    /\ pc = "loop"
    /\ pending_steps # <<>>
    /\ (client /\ call.fn \notin OwnBound) =>
           Len(execution_results) < MaxHistory
    /\ LET step == Head(pending_steps)
       IN IF step.id \in completed_ids
          THEN /\ pending_steps' = Tail(pending_steps)
               /\ pc' = IF pending_steps' = <<>> THEN "done" ELSE "loop"
               /\ events' = events \o Complete(pc')
               /\ UNCHANGED <<execution_results, completed_ids>>
          ELSE \E o \in StepOutcomes(step) :
                  LET result == ExecutionResult(step.id, o.status, o.output,
                                                o.error)
                  IN /\ pending_steps' = Tail(pending_steps)
                     /\ execution_results' = Append(execution_results, result)
                     /\ completed_ids' =
                          IF Completes(result)
                          THEN completed_ids \cup {result.step_id}
                          ELSE completed_ids
                     /\ events' = events \o <<OnStepStart(step),
                                                OnStepResult(result)>>
                     /\ pc' = "review"
    /\ UNCHANGED <<client, execute, intent, plan, safety, safety_plan,
                   approved_ids, reviews, error, call, ret>>

\* the rest of the pass: review, replan and safety, break or requeue, and the
\* loop test on the new queue
Review ==
    /\ pc = "review"
    /\ \E rresp \in ReviewResponses :
       LET review == ReviewExecution(intent.action, plan,
                                     ReviewHistory(execution_results), rresp)
       IN \E report \in IF review.replaced
                        THEN {SafetyReview(review.plan, sresp) :
                                  sresp \in SafetyResponses}
                        ELSE {safety} :
          LET new_plan == IF review.replaced THEN review.plan ELSE plan
              new_ids == IF review.replaced THEN Ids(report.approved_steps)
                         ELSE approved_ids
          IN /\ reviews' = Append(reviews, review)
             /\ plan' = new_plan
             /\ safety' = ReviewedSafety(review, report, safety)
             /\ safety_plan' = IF review.replaced THEN review.plan
                               ELSE safety_plan
             /\ IF ReplanBlocked(review, report)
                THEN /\ pc' = "error"
                     /\ error' = "All plan steps were blocked after planner review"
                     /\ UNCHANGED <<approved_ids, pending_steps>>
                ELSE /\ approved_ids' = new_ids
                     /\ UNCHANGED error
                     /\ IF review.complete
                        THEN /\ pc' = "done"
                             /\ UNCHANGED pending_steps
                        ELSE /\ pending_steps' =
                                  Pending(new_plan, completed_ids, new_ids)
                             /\ pc' = IF pending_steps' = <<>> THEN "done"
                                      ELSE "loop"
             /\ events' = events \o <<OnReview>> \o ReplanStages(review)
                                 \o Complete(pc')
    /\ UNCHANGED <<client, execute, intent, completed_ids, execution_results,
                   call, ret>>

Next == Start \/ ExecuteStep \/ Review

Spec == Init /\ [][Next]_vars

\* the calls of an orchestrator wired without a model client
InitHeuristic == Init /\ client = FALSE

SpecHeuristic == InitHeuristic /\ [][Next]_vars

\* orchestrate runs in one thread that is never suspended for good; the
\* calls taken are those whose template plan has one step (the plan still
\* grows by the remediation steps the reviews inject)
InitHeuristicFair == InitHeuristic /\ intent.action # "system.update"

SpecHeuristicFair == InitHeuristicFair /\ [][Next]_vars /\ WF_vars(Next)

(***************************************************************************)
(* Direct calls of one component: the orchestrate call stays idle.          *)
(***************************************************************************)
OrchIdle ==
    /\ pc = "idle"
    /\ client = FALSE
    /\ execute = FALSE
    /\ intent = Intent("", FALSE, FALSE)
    /\ plan = <<>>
    /\ safety = EmptyReport
    /\ safety_plan = <<>>
    /\ approved_ids = {}
    /\ completed_ids = {}
    /\ pending_steps = <<>>
    /\ execution_results = <<>>
    /\ reviews = <<>>
    /\ error = ""
    /\ events = <<>>

(***************************************************************************)
(* SafetyChecker.review called on a plan                                   *)
(***************************************************************************)
MaxSafetyPlan == 3

SafetySteps ==
    {PlanStep(id, action, NoParameters, <<>>) :
         id \in {"a", "b"}, action \in {"system.run_command", "system.shutdown"}}

SafetyReplies ==
    {NoClient, ModelFailure}
    \cup {SafetyReply(b) : b \in SUBSET {"a", "b", "zz"}}

InitSafety ==
    /\ OrchIdle
    /\ call \in {[fn |-> "safety.review", returned |-> FALSE, plan |-> p,
                  resp |-> r] :
                     p \in SeqsUpTo(SafetySteps, MaxSafetyPlan),
                     r \in SafetyReplies}
    /\ ret = NoReturn

SafetyCall ==
    /\ call.fn = "safety.review"
    /\ ~call.returned
    /\ ret' = SafetyReview(call.plan, call.resp)
    /\ call' = [call EXCEPT !.returned = TRUE]
    /\ UNCHANGED orch_vars

SpecSafety == InitSafety /\ [][SafetyCall]_vars

SafetyReturned == call.fn = "safety.review" /\ call.returned

\* the number of entries of a step list that carry the id
Occurrences(steps, id) == Cardinality({i \in 1..Len(steps) : steps[i].id = id})

\* C2: after SafetyChecker.review, with or without a model pass, every step
\* id of the plan is listed exactly once, in exactly one of approved_steps
\* and blocked_steps, and the two lists share no id.
Partitions(report, p) ==
    /\ Ids(report.approved_steps) \cap Ids(report.blocked_steps) = {}
    /\ \A id \in Ids(p) :
          Occurrences(report.approved_steps, id)
              + Occurrences(report.blocked_steps, id) = 1

C2_Partition ==
    /\ SafetyReturned => Partitions(ret, call.plan)
    /\ pc \in {"loop", "review", "done", "error"} =>
           Partitions(safety, safety_plan)

\* C3: deny wins in the merge. With a model pass, every id the baseline
\* blocked and every id the model blocked is in blocked_steps; an id the model
\* blocked is not in approved_steps; the merged approved_steps hold only ids
\* the baseline approved and none of the steps the baseline blocked.
C3_DenyWins ==
    (SafetyReturned /\ call.resp.kind = "ok") =>
        LET baseline == BaselineReport(call.plan)
            extra == SafetyReviewWithModel(call.plan, call.resp)
        IN /\ Ids(baseline.blocked_steps) \subseteq Ids(ret.blocked_steps)
           /\ Ids(extra.blocked_steps) \subseteq Ids(ret.blocked_steps)
           /\ Ids(extra.blocked_steps) \cap Ids(ret.approved_steps) = {}
           /\ Ids(ret.approved_steps) \subseteq Ids(baseline.approved_steps)
           /\ Range(baseline.blocked_steps) \cap Range(ret.approved_steps) = {}

\* C3 witness: the model approved a step the baseline blocked and blocked a
\* step the baseline approved; both end blocked.
C3_Witness ==
    /\ SafetyReturned
    /\ call.resp.kind = "ok"
    /\ \E i, j \in 1..Len(call.plan) :
          /\ Disallowed(call.plan[i])
          /\ call.plan[i].id \notin call.resp.blocked_ids
          /\ ~Disallowed(call.plan[j])
          /\ call.plan[j].id \in call.resp.blocked_ids
          /\ {call.plan[i].id, call.plan[j].id} \subseteq Ids(ret.blocked_steps)

(***************************************************************************)
(* Planner.review_execution called on a plan and a history                 *)
(***************************************************************************)
MaxReviewHistory == 4

ReviewPlans ==
    {<<>>} \cup
    {<<PlanStep(x, "system.run_command", NoParameters, <<>>)>> :
         x \in {"a", "b"}} \cup
    {<<PlanStep(x, "system.run_command", NoParameters, <<>>),
       PlanStep(y, "system.run_command", NoParameters, <<x>>)>> :
         x, y \in {"a", "b"}}

ReviewResults ==
    {ExecutionResult(id, st, NoMessage, NoMessage) :
         id \in {"a", "b"}, st \in {"success", "error", "blocked"}}

ReviewReplies ==
    {NoClient, ModelFailure,
     ReviewReply(FALSE, <<>>, <<>>, FALSE),
     ReviewReply(FALSE, <<>>, <<StepPayload("a", "system.run_command")>>, FALSE),
     ReviewReply(TRUE, <<StepPayload("b", "system.run_command")>>, <<>>, TRUE)}

InitReview ==
    /\ OrchIdle
    /\ call \in {[fn |-> "planner.review_execution", returned |-> FALSE,
                  plan |-> p, history |-> h, resp |-> r] :
                     p \in ReviewPlans,
                     h \in SeqsUpTo(ReviewResults, MaxReviewHistory),
                     r \in ReviewReplies}
    /\ ret = NoReturn

ReviewCall ==
    /\ call.fn = "planner.review_execution"
    /\ ~call.returned
    /\ ret' = ReviewExecution("system.update", call.plan, call.history,
                              call.resp)
    /\ call' = [call EXCEPT !.returned = TRUE]
    /\ UNCHANGED orch_vars

SpecReview == InitReview /\ [][ReviewCall]_vars

ReviewReturned == call.fn = "planner.review_execution" /\ call.returned

\* the history holds three failures of the id in a row
FailedThreeTimes(history, id) ==
    \E i \in 1..(Len(history) - 2) :
        \A j \in i..(i + 2) :
            /\ history[j].step_id = id
            /\ history[j].status \in FailureStatuses

\* C6: on the heuristic path, for a history in which a step id has failed 3
\* consecutive times, the review is complete and the id is not in
\* next_steps; this also holds for every extension of such a history.
C6_BoundedRetry ==
    (ReviewReturned /\ call.resp.kind # "ok") =>
        \A id \in {"a", "b"} :
            FailedThreeTimes(call.history, id) =>
                ret.complete /\ id \notin Ids(ret.next_steps)

\* C9: a step id that has a result whose status is not error or blocked is
\* not in next_steps of the review, on the heuristic and on the model path.
C9_NoRequeue ==
    ReviewReturned =>
        CompletedIds(call.history) \cap Ids(ret.next_steps) = {}

(***************************************************************************)
(* Planner.review_execution called again and again by a caller that feeds  *)
(* each returned plan and the grown history back in (no model client)      *)
(***************************************************************************)
MaxRepairHistory == 3

RepairPlans ==
    {<<PlanStep("a", "system.run_command", NoParameters, <<>>)>>,
     <<PlanStep("a", "system.run_command", NoParameters, <<>>),
       PlanStep("b", "system.run_command", NoParameters, <<"a">>)>>}

RepairModuleNames == {"numpy", " numpy", "a.b"}

RepairCommandNames == {"x.y", "x-y"}

RepairResults ==
    {ExecutionResult(id, "success", TextMessage, NoMessage) : id \in {"a", "b"}}
    \cup {ExecutionResult(id, "error", NoMessage, TextMessage) :
              id \in {"a", "b"}}
    \cup {ExecutionResult(id, "error", NoMessage, ModuleMessage(n)) :
              id \in {"a", "b"}, n \in RepairModuleNames}
    \cup {ExecutionResult(id, "error", NoMessage, CommandMessage(n)) :
              id \in {"a", "b"}, n \in RepairCommandNames}

InitRepair ==
    /\ OrchIdle
    /\ call \in {[fn |-> "planner.repair", returned |-> FALSE, plan |-> p,
                  history |-> <<>>, next_plan |-> p] : p \in RepairPlans}
    /\ ret = NoReturn

\* one more result, then review_execution on the plan the last review gave
RepairCall ==
    /\ call.fn = "planner.repair"
    /\ Len(call.history) < MaxRepairHistory
    /\ \E r \in RepairResults :
          LET history == Append(call.history, r)
              review == ReviewExecution("system.update", call.next_plan,
                                        history, NoClient)
          IN /\ ret' = review
             /\ call' = [call EXCEPT !.returned = TRUE,
                                      !.plan = call.next_plan,
                                      !.history = history,
                                      !.next_plan = review.plan]
    /\ UNCHANGED orch_vars

SpecRepair == InitRepair /\ [][RepairCall]_vars

RepairReturned == call.fn = "planner.repair" /\ call.returned

\* the steps of a plan that remediate a missing Python package, names
\* compared up to surrounding blanks
EnsureSteps(p, package) ==
    {i \in 1..Len(p) :
         /\ p[i].action = "system.ensure_python_package"
         /\ Strip(package) \in {Strip(p[i].parameters.package),
                                Strip(p[i].parameters.module)}}

\* C11: on the heuristic path, when the last result's error names a missing
\* module P, the plan holds no ensure step for P and the failing step is in
\* the plan, the returned plan is the input plan with exactly one new
\* system.ensure_python_package step for P right before the failing step,
\* whose depends_on keeps its entries and holds the new step's id.
C11_RepairRoundTrip ==
    LET p == call.plan
        q == ret.plan
        last == Last(call.history)
        P == last.error.name
    IN (/\ RepairReturned
        /\ last.error.kind = "module"
        /\ EnsureSteps(p, P) = {}
        /\ last.step_id \in Ids(p)) =>
           \E at \in 1..Len(p) :
              /\ p[at].id = last.step_id
              /\ \A j \in 1..(at - 1) : p[j].id # last.step_id
              /\ Len(q) = Len(p) + 1
              /\ EnsureSteps(q, P) = {at}
              /\ q[at].parameters.package = P
              /\ SubSeq(q, 1, at - 1) = SubSeq(p, 1, at - 1)
              /\ SubSeq(q, at + 2, Len(q)) = SubSeq(p, at + 1, Len(p))
              /\ [q[at + 1] EXCEPT !.depends_on = p[at].depends_on] = p[at]
              /\ q[at].id \in Range(q[at + 1].depends_on)
              /\ SubSeq(q[at + 1].depends_on, 1, Len(p[at].depends_on))
                     = p[at].depends_on

\* C11 witness: a step that already depended on another failed on a missing
\* module and the ensure step was put between the two.
C11_Witness ==
    /\ RepairReturned
    /\ Last(call.history).error.kind = "module"
    /\ Last(call.history).step_id = "b"
    /\ call.plan = <<PlanStep("a", "system.run_command", NoParameters, <<>>),
                     PlanStep("b", "system.run_command", NoParameters,
                              <<"a">>)>>
    /\ Len(ret.plan) = 3
    /\ ret.plan[2].action = "system.ensure_python_package"
    /\ ret.plan[3].depends_on = <<"a", ret.plan[2].id>>

\* the steps of a plan that install a missing command with apt or apt-get
InstallSteps(p, command) ==
    {i \in 1..Len(p) :
         LET parts == p[i].parameters.command
         IN /\ p[i].action = "system.run_command"
            /\ parts # <<>>
            /\ parts[1] \in {"apt", "apt-get"}
            /\ "install" \in Range(parts)
            /\ command \in Range(parts)}

\* the steps of a plan that name exactly this package or module
SamePackageSteps(p, package) ==
    {i \in 1..Len(p) :
         /\ p[i].action = "system.ensure_python_package"
         /\ package \in {p[i].parameters.package, p[i].parameters.module}}

\* C12: on the heuristic path, when the plan already holds a remediation
\* step for the dependency the last result misses (an ensure step with the
\* same package or module, an apt/apt-get install step naming the command),
\* review_execution returns the plan object it was given; so no plan ever
\* holds two remediation steps for one dependency.
C12_NoDuplicateRemediation ==
    RepairReturned =>
        LET last == Last(call.history)
            message == OrMessage(last.error, last.output)
        IN /\ (message.kind = "module"
                  /\ SamePackageSteps(call.plan, message.name) # {}) =>
                     ~ret.replaced
           /\ (message.kind = "command"
                  /\ InstallSteps(call.plan, message.name) # {}) =>
                     ~ret.replaced
           /\ \A n \in RepairModuleNames :
                  Cardinality(SamePackageSteps(ret.plan, n)) <= 1
           /\ \A n \in RepairCommandNames :
                  Cardinality(InstallSteps(ret.plan, n)) <= 1

(***************************************************************************)
(* Properties of orchestrate                                               *)
(***************************************************************************)
Terminated == pc \in {"done", "error"}

\* C1: every step handed to the executor is, at that moment, one of the
\* approved_steps of the current SafetyReport, which was computed for the
\* current plan; a step the report lists as blocked is not executed.
C1_SafetyGate ==
    [][(pc = "loop" /\ pc' = "review") =>
          /\ Head(pending_steps) \in Range(safety.approved_steps)
          /\ Head(pending_steps) \notin Range(safety.blocked_steps)
          /\ safety_plan = plan]_vars

\* C4: when the initial safety review of a non-empty plan approves no step,
\* the call raises OrchestrationError with no step executed and no review
\* requested, for execute = true and false alike, and returns nothing.
C4_InitialBlock ==
    /\ [][pc = "start" =>
             ((plan' # <<>> /\ safety'.approved_steps = <<>>) =>
                  /\ pc' = "error"
                  /\ execution_results' = <<>>
                  /\ reviews' = <<>>)]_vars
    /\ [][pc # "error"]_vars

C4_Witness ==
    /\ pc = "error"
    /\ error = "All plan steps were blocked by safety checks"
    /\ ~execute
    /\ plan # <<>>

\* C5 as stated: whenever a review returned a plan object other than the
\* current plan, the current plan is that plan and the safety report is the
\* one computed for it.
C5_ReplaceAlways ==
    (pc \in {"loop", "done"} /\ reviews # <<>> /\ Last(reviews).replaced) =>
        plan = Last(reviews).plan /\ safety_plan = plan

\* C5 amended: whenever a review of the execution loop returns a plan object
\* other than the current plan, the plan is replaced by it and the safety
\* checker is run on it before any further step is executed; if it is
\* non-empty with no approved step the call raises OrchestrationError, also
\* when the review reported complete = true.
C5_Replan ==
    /\ [][pc = "review" =>
             (Last(reviews').replaced =>
                  /\ plan' = Last(reviews').plan
                  /\ safety_plan' = plan'
                  /\ Ids(safety'.approved_steps) \cup Ids(safety'.blocked_steps)
                         = Ids(plan')
                  /\ (plan' # <<>> /\ safety'.approved_steps = <<>>) =>
                         pc' = "error"
                  /\ pc' # "error" =>
                         approved_ids' = Ids(safety'.approved_steps))]_vars
    /\ [](pc = "loop" => safety_plan = plan)

C5_Witness ==
    /\ pc = "error"
    /\ error = "All plan steps were blocked after planner review"
    /\ Last(reviews).replaced
    /\ Last(reviews).complete

\* the i-th result is a failure and its step id has failed 3 times by then
ThirdFailure(i) ==
    /\ execution_results[i].status \in FailureStatuses
    /\ FailureCount(SubSeq(execution_results, 1, i),
                    execution_results[i].step_id) >= 3

Executions(id) ==
    Cardinality({i \in 1..Len(execution_results) :
                     execution_results[i].step_id = id})

\* C7: with the heuristic planner no step id is executed more than 3 times,
\* and the third failure of a step id is the last execution of the call: the
\* loop ends there without an OrchestrationError.
C7_RetryBound ==
    ~client =>
        \A i \in 1..Len(execution_results) :
            /\ Executions(execution_results[i].step_id) <= 3
            /\ ThirdFailure(i) =>
                  /\ i = Len(execution_results)
                  /\ pc \in {"review", "done"}
                  /\ error = ""

\* C7 witness: the call returned after a third failure, with a step of the
\* plan never executed.
C7_Witness ==
    /\ ~client
    /\ pc = "done"
    /\ execution_results # <<>>
    /\ ThirdFailure(Len(execution_results))
    /\ \E id \in Ids(plan) : Executions(id) = 0

\* C8: with no model client every call terminates, and the executions of a
\* call never outnumber 3 per step id of the current plan.
C8_Terminates ==
    /\ <>Terminated
    /\ [](Len(execution_results) <= 3 * Cardinality(Ids(plan)))

\* C8 witness: a call that injected a remediation step, retried and returned.
C8_Witness ==
    /\ pc = "done"
    /\ \E i \in 1..Len(reviews) : reviews[i].replaced
    /\ Len(execution_results) >= 4

\* C10: a step id that produced a result whose status is not error or
\* blocked is not executed again in the call.
C10_NoReexecution ==
    \A i, j \in 1..Len(execution_results) :
        (i < j /\ execution_results[i].status \notin FailureStatuses) =>
            execution_results[j].step_id # execution_results[i].step_id

\* C10 witness: a step completed, a later review replaced the plan by one
\* that still holds its id, and another step was executed afterwards.
C10_Witness ==
    \E i \in 1..Len(execution_results), k \in 1..Len(reviews) :
        /\ execution_results[i].status \notin FailureStatuses
        /\ i <= k
        /\ reviews[k].replaced
        /\ execution_results[i].step_id \in Ids(reviews[k].plan)
        /\ Len(execution_results) > k

\* C13: with the heuristic planner the step ids of the current plan, the
\* template plan and every plan a remediation was injected into, are
\* pairwise distinct.
C13_UniqueIds ==
    ~client =>
        \A i, j \in 1..Len(plan) : i # j => plan[i].id # plan[j].id

\* C14: a call with execute = false never invokes a capability; when it
\* returns, the execution list is empty and reviews holds exactly one
\* review, the one review_execution gives for the plan and the empty history.
C14_DryRun ==
    ~execute =>
        /\ pc \notin {"loop", "review"}
        /\ execution_results = <<>>
        /\ pc = "done" =>
               /\ Len(reviews) = 1
               /\ reviews[1] \in {ReviewExecution(intent.action, plan, <<>>, r) :
                                      r \in ReviewResponses}

\* C14 witness: a dry run whose plan has an approved step returned.
C14_Witness ==
    /\ ~execute
    /\ pc = "done"
    /\ safety.approved_steps # <<>>
    /\ Len(reviews) = 1
    /\ execution_results = <<>>

\* C15: in a call with execute = true the results are appended in the order
\* the steps are attempted, there is one review per result (the review of
\* the latest result being the only one that can be outstanding), and the
\* i-th review is the one review_execution gives for the first i results.
C15_OneReviewPerStep ==
    /\ [](execute =>
             Len(execution_results)
                 = Len(reviews) + (IF pc = "review" THEN 1 ELSE 0))
    /\ [][(execute /\ pc = "loop" /\ pc' = "review") =>
             /\ Len(execution_results') = Len(execution_results) + 1
             /\ SubSeq(execution_results', 1, Len(execution_results))
                    = execution_results
             /\ Last(execution_results').step_id = Head(pending_steps).id
             /\ reviews' = reviews]_vars
    /\ [][(execute /\ pc = "review") =>
             /\ execution_results' = execution_results
             /\ \E r \in ReviewResponses :
                   reviews' = Append(reviews,
                                     ReviewExecution(intent.action, plan,
                                                     execution_results, r))]_vars

\* C15 witness: a call returned after three attempts and three reviews.
C15_Witness ==
    /\ execute
    /\ pc = "done"
    /\ Len(execution_results) = 3
    /\ Len(reviews) = 3

\* where a reader of the observer calls stands after one more call, "bad"
\* once a call came out of order
Observe(at, id, ev) ==
    LET stage(name) == ev = <<"on_stage", name>>
        to(next) == [at |-> next, id |-> ""]
    IN CASE at = "new" /\ stage("start") -> to("start")
         [] at = "start" /\ stage("intent") -> to("intent")
         [] at = "intent" /\ stage("plan") -> to("plan")
         [] at = "plan" /\ stage("safety") -> to("safety")
         [] at = "safety" /\ stage("execution") -> to("execution")
         [] at = "safety" /\ stage("execution_skipped") -> to("skipped")
         [] at \in {"execution", "review", "resafety"}
               /\ ev[1] = "on_step_start" -> [at |-> "step", id |-> ev[2]]
         [] at = "step" /\ ev = <<"on_step_result", id>> -> to("result")
         [] at = "result" /\ ev[1] = "on_review" -> to("review")
         [] at = "review" /\ stage("replan") -> to("replan")
         [] at = "replan" /\ stage("safety") -> to("resafety")
         [] at \in {"execution", "review", "resafety", "skipped"}
               /\ stage("complete") -> to("complete")
         [] OTHER -> to("bad")

RECURSIVE Observed(_, _)
Observed(q, evs) ==
    IF evs = <<>> THEN q
    ELSE Observed(Observe(q.at, q.id, Head(evs)), Tail(evs))

\* C16: the observer sees start, intent, plan, safety, then execution or
\* execution_skipped, complete last; inside execution each on_step_start is
\* followed by that step's on_step_result and on_review, and a review may be
\* followed by the pair replan, safety. execution_skipped is seen only when
\* execute is false or no step was approved; a call that raised has not
\* announced complete.
C16_StageOrder ==
    LET q == Observed([at |-> "new", id |-> ""], events)
    IN /\ q.at # "bad"
       /\ pc = "start" => events = <<>>
       /\ pc = "done" <=> q.at = "complete"
       /\ pc = "error" => q.at \in {"safety", "resafety"}
       /\ pc = "loop" => q.at \in {"execution", "review", "resafety"}
       /\ pc = "review" => q.at = "result"
       /\ q.at = "skipped" \/ OnStage("execution_skipped") \in Range(events) =>
              ~execute \/ safety.approved_steps = <<>>

\* C16 witness: a call that replanned and went on to a second step returned.
C16_Witness ==
    /\ pc = "done"
    /\ OnStage("replan") \in Range(events)
    /\ Len(execution_results) >= 2
    /\ Last(events) = OnStage("complete")

\* the step ids the observer was handed results for, in order
ResultIdsSeen ==
    LET seen == SelectSeq(events, LAMBDA ev : ev[1] = "on_step_result")
    IN [i \in 1..Len(seen) |-> seen[i][2]]

ReviewsSeen == Len(SelectSeq(events, LAMBDA ev : ev[1] = "on_review"))

MaxExecSteps == 3

\* an exception object: its class and the message it was built with
Exc(type, message) == [type |-> type, message |-> message]

\* str(exc): the message, which KeyError shows as its repr, inside quotes
Str(exc) ==
    [kind |-> exc.message.kind, name |-> exc.message.name,
     quoted |-> exc.type = "KeyError"]

\* CapabilityRegistry.resolve: the capability, or KeyError naming the action
Resolve(registry, action) ==
    IF action \in registry
    THEN [kind |-> "capability", exc |-> Exc("", NoMessage)]
    ELSE [kind |-> "raise",
          exc |-> Exc("KeyError", [kind |-> "no_capability", name |-> action])]

\* except Exception as exc: every class a capability's execute raises here
CatchesM(exc) == exc.type # "KeyError"
Catches(exc) == exc.type \in {"KeyError", "RuntimeError", "ModuleNotFoundError"}

\* one pass of `for step in steps`: the result appended, or the exception
\* that leaves execute_plan
ExecuteOne(step, registry, behaviour) ==
    LET resolved == Resolve(registry, step.action)
    IN IF resolved.kind = "raise"
       THEN [raised |-> FALSE,
             result |-> ExecutionResult(step.id, "blocked", NoMessage,
                                        Str(resolved.exc))]
       ELSE IF behaviour.kind = "raise"
       THEN IF Catches(behaviour.exc)
            THEN [raised |-> FALSE,
                  result |-> ExecutionResult(step.id, "error", NoMessage,
                                             Str(behaviour.exc))]
            ELSE [raised |-> TRUE,
                  result |-> ExecutionResult(step.id, "", NoMessage,
                                             NoMessage)]
       ELSE [raised |-> FALSE,
             result |-> ExecutionResult(step.id, behaviour.result.status,
                                        behaviour.result.output,
                                        behaviour.result.error)]

RECURSIVE ExecuteFrom(_, _, _, _)
ExecuteFrom(steps, registry, behave, i) ==
    IF i > Len(steps) THEN [raised |-> FALSE, results |-> <<>>]
    ELSE LET one == ExecuteOne(steps[i], registry, behave[i])
         IN IF one.raised THEN [raised |-> TRUE, results |-> <<>>]
            ELSE LET rest == ExecuteFrom(steps, registry, behave, i + 1)
                 IN IF rest.raised THEN rest
                    ELSE [raised |-> FALSE,
                          results |-> <<one.result>> \o rest.results]

ExecutePlan(steps, registry, behave) == ExecuteFrom(steps, registry, behave, 1)

ExecRegistry == {"system.run_command", "process.enumerate"}

ExecActions == ExecRegistry \cup {"system.install_package"}

\* what a registered capability does when called: return a result or raise
ExecBehaviours ==
    {[kind |-> "return", result |-> Outcome("success", TextMessage, NoMessage),
      exc |-> Exc("", NoMessage)],
     [kind |-> "return", result |-> Outcome("error", NoMessage, TextMessage),
      exc |-> Exc("", NoMessage)]}
    \cup {[kind |-> "raise", result |-> Outcome("", NoMessage, NoMessage),
           exc |-> e] :
              e \in {Exc("RuntimeError", TextMessage),
                     Exc("KeyError", TextMessage),
                     Exc("ModuleNotFoundError", ModuleMessage("numpy"))}}

ExecPlans ==
    UNION {{[i \in 1..k |->
                PlanStep(StepIndexId(i), actions[i], NoParameters, <<>>)] :
                actions \in [1..k -> ExecActions]} : k \in 0..MaxExecSteps}

InitExecutor ==
    /\ OrchIdle
    /\ call \in UNION {{[fn |-> "executor.execute_plan", returned |-> FALSE,
                         steps |-> p, behave |-> b] :
                            b \in [1..Len(p) -> ExecBehaviours]} :
                        p \in ExecPlans}
    /\ ret = NoReturn

ExecutorCall ==
    /\ call.fn = "executor.execute_plan"
    /\ ~call.returned
    /\ ret' = ExecutePlan(call.steps, ExecRegistry, call.behave)
    /\ call' = [call EXCEPT !.returned = TRUE]
    /\ UNCHANGED orch_vars

SpecExecutor == InitExecutor /\ [][ExecutorCall]_vars

ExecutorReturned == call.fn = "executor.execute_plan" /\ call.returned

\* C18: execute_plan never raises and returns one result per input step, in
\* input order. A step whose action has no registered capability gets status
\* blocked with the KeyError text naming the action; a step whose capability
\* raises gets status error with str(exc); a capability's own result is
\* passed on; the steps after a blocked or failed step are still processed.
C18_ExecutePlanTotal ==
    ExecutorReturned =>
        /\ ~ret.raised
        /\ Len(ret.results) = Len(call.steps)
        /\ \A i \in 1..Len(call.steps) :
              LET step == call.steps[i]
                  result == ret.results[i]
                  behaviour == call.behave[i]
              IN /\ result.step_id = step.id
                 /\ IF step.action \notin ExecRegistry
                    THEN /\ result.status = "blocked"
                         /\ result.error.kind = "no_capability"
                         /\ result.error.name = step.action
                    ELSE IF behaviour.kind = "raise"
                    THEN /\ result.status = "error"
                         /\ result.error.kind = behaviour.exc.message.kind
                         /\ result.error.name = behaviour.exc.message.name
                    ELSE /\ result.status = behaviour.result.status
                         /\ result.output = behaviour.result.output
                         /\ result.error = behaviour.result.error

\* C18 witness: a blocked step, then a step whose capability raised KeyError,
\* then a step that succeeded, all three reported.
C18_Witness ==
    /\ ExecutorReturned
    /\ Len(call.steps) = 3
    /\ call.steps[1].action \notin ExecRegistry
    /\ call.steps[2].action \in ExecRegistry
    /\ call.behave[2].kind = "raise"
    /\ call.behave[2].exc.type = "KeyError"
    /\ Len(ret.results) = 3
    /\ ret.results[1].status = "blocked"
    /\ ret.results[2].status = "error"
    /\ ret.results[3].status = "success"

(***************************************************************************)
(* The model call of IntentParser.parse, Planner.create_plan,              *)
(* Planner.review_execution and SafetyChecker.review                       *)
(***************************************************************************)
ModelOperations == {"parse", "create_plan", "review_execution", "safety.review"}

\* the keys each operation reads from the decoded payload
PayloadFields(op) ==
    CASE op = "parse" -> {"action", "confidence", "parameters", "reasoning"}
      [] op = "create_plan" -> {"steps", "notes", "depends_on"}
      [] op = "review_execution" -> {"plan", "next_steps", "message", "complete"}
      [] op = "safety.review" -> {"blocked_steps", "warnings", "rationale"}

\* a value put where another type is expected: 5, "high", [["a"]], {"a": 1}
WrongTypes == {"number", "string", "list", "object"}

\* what the model client gives back: a transport failure, or content that is
\* not JSON, JSON that is not an object, or an object with the named field
\* (none for a well-formed reply) holding a value of the named type
Completion(transport, content, field, type) ==
    [transport |-> transport, content |-> content, field |-> field,
     type |-> type]

Completions(op) ==
    {Completion("error", "", "", "")}
    \cup {Completion("ok", c, "", "") :
              c \in {"invalid", "list", "number", "null", "string"}}
    \cup {Completion("ok", "object", "", "")}
    \cup {Completion("ok", "object", f, t) :
              f \in PayloadFields(op), t \in WrongTypes}

\* the exception the conversion of one field raises, "" when it goes through
FieldRaises(op, field, type) ==
    CASE \* float(payload.get("confidence") or 0.0)
         op = "parse" /\ field = "confidence" ->
            (CASE type = "string" -> "ValueError"
               [] type \in {"list", "object"} -> "TypeError"
               [] OTHER -> "")
         \* enumerate(steps_payload, 1) and step_payload.get(...)
      [] field \in {"steps", "next_steps"} ->
            (IF type = "number" THEN "TypeError" ELSE "AttributeError")
         \* list(step_payload.get("depends_on") or [])
      [] field = "depends_on" -> (IF type = "number" THEN "TypeError" ELSE "")
         \* set(payload.get("blocked_steps") or [])
      [] field = "blocked_steps" ->
            (IF type \in {"number", "list"} THEN "TypeError" ELSE "")
         \* list(payload.get("warnings") or []), merged through a set
      [] field = "warnings" ->
            (IF type \in {"number", "list"} THEN "TypeError" ELSE "")
      [] OTHER -> ""

\* the exception the model path of the operation raises, "" when it returns
ModelPathRaises(op, completion) ==
    CASE completion.transport = "error" -> "ChatClientError"
      [] completion.content = "invalid" -> "JSONDecodeError"
         \* payload = json.loads(...); payload.get(...)
      [] completion.content # "object" -> "AttributeError"
      [] completion.field = "" -> ""
      [] OTHER -> FieldRaises(op, completion.field, completion.type)

\* except (ChatClientError, ValueError, json.JSONDecodeError): pass
FallbackCaught == {"ChatClientError", "ValueError", "JSONDecodeError"}

\* the operation with a client configured: the model result, the heuristic or
\* baseline result after a caught exception, or the exception
WithModel(op, completion) ==
    LET exc == ModelPathRaises(op, completion)
    IN IF exc = "" THEN [raised |-> FALSE, exc |-> "", source |-> "model"]
       ELSE IF exc \in FallbackCaught
       THEN [raised |-> FALSE, exc |-> "", source |-> "heuristic"]
       ELSE [raised |-> TRUE, exc |-> exc, source |-> ""]

InitModelCall ==
    /\ OrchIdle
    /\ call \in UNION {{[fn |-> "model_call", returned |-> FALSE, op |-> op,
                         completion |-> c] : c \in Completions(op)} :
                        op \in ModelOperations}
    /\ ret = NoReturn

ModelCall ==
    /\ call.fn = "model_call"
    /\ ~call.returned
    /\ ret' = WithModel(call.op, call.completion)
    /\ call' = [call EXCEPT !.returned = TRUE]
    /\ UNCHANGED orch_vars

SpecModelCall == InitModelCall /\ [][ModelCall]_vars

ModelCallReturned == call.fn = "model_call" /\ call.returned

\* the reply is not the expected JSON object: no reply, no JSON, JSON of
\* another shape, or a field the operation cannot convert
Malformed(op, completion) ==
    \/ completion.transport = "error"
    \/ completion.content # "object"
    \/ /\ completion.field # ""
       /\ FieldRaises(op, completion.field, completion.type) # ""

\* C19: with a model client configured, when the model call fails in
\* transport or its output is not the expected well-formed JSON object,
\* each of the four operations returns its heuristic or baseline result and
\* raises nothing.
C19_ModelFailuresAbsorbed ==
    (ModelCallReturned /\ Malformed(call.op, call.completion)) =>
        /\ ~ret.raised
        /\ ret.source = "heuristic"

(***************************************************************************)
(* Planner.create_plan on the heuristic path, one call per template        *)
(***************************************************************************)
\* the actions _heuristic_plan has a branch for, and two it has none for
TemplateActions ==
    {"system.optimize_resources", "process.manage", "ui.assist_user",
     "ui.control_pointer", "system.launch_application", "system.schedule_task",
     "system.update", "system.execute_low_level", "analysis.review_request",
     "system.shutdown", ""}

TemplateIntents ==
    {Intent(action, launch, has_source) :
         action \in TemplateActions, launch \in BOOLEAN,
         has_source \in BOOLEAN}

InitTemplate ==
    /\ OrchIdle
    /\ call \in {[fn |-> "planner.create_plan", returned |-> FALSE,
                  intent |-> in, resp |-> r] :
                     in \in TemplateIntents, r \in {NoClient, ModelFailure}}
    /\ ret = NoReturn

TemplateCall ==
    /\ call.fn = "planner.create_plan"
    /\ ~call.returned
    /\ ret' = [steps |-> CreatePlan(call.intent, call.resp)]
    /\ call' = [call EXCEPT !.returned = TRUE]
    /\ UNCHANGED orch_vars

SpecTemplate == InitTemplate /\ [][TemplateCall]_vars

TemplateReturned == call.fn = "planner.create_plan" /\ call.returned

\* every depends_on entry of the step at i names a step listed before i
DependencyOrdered(p) ==
    \A i \in 1..Len(p) :
        \A d \in Range(p[i].depends_on) :
            \E j \in 1..(i - 1) : p[j].id = d

\* C20: every heuristic plan template is listed in dependency order: each
\* depends_on entry names a step listed earlier in the plan; an intent with action process.manage and no model client gets
\* exactly the steps list_processes, evaluate_process_actions and
\* apply_process_change, each depending on the one before it.
C20_TemplateOrder ==
    TemplateReturned =>
        /\ DependencyOrdered(ret.steps)
        /\ (call.intent.action = "process.manage" /\ call.resp = NoClient) =>
               /\ [i \in 1..Len(ret.steps) |-> ret.steps[i].id]
                      = <<"list_processes", "evaluate_process_actions",
                          "apply_process_change">>
               /\ [i \in 1..Len(ret.steps) |-> ret.steps[i].depends_on]
                      = << <<>>, <<"list_processes">>,
                           <<"evaluate_process_actions">> >>

\* C20 witness: the plan of a process.manage intent without a model client
C20_Witness ==
    /\ TemplateReturned
    /\ call.intent.action = "process.manage"
    /\ call.resp = NoClient
    /\ Len(ret.steps) = 3

(***************************************************************************)
(* Planner.create_plan called twice on one Intent object with no client:   *)
(* the steps with their parameters                                         *)
(***************************************************************************)
\* a parameters dict; "" stands for a missing key, synthesized and candidate
\* for the _ainux_low_level metadata
Parameters(target, application, command, source, operation, original) ==
    [target |-> target, application |-> application, command |-> command,
     source |-> source, requested_operation |-> operation,
     original_request |-> original, synthesized |-> FALSE, candidate |-> ""]

EmptyParameters == Parameters("", "", "", "", "", "")

\* a or b on two dict values
Or(a, b) == IF a # "" THEN a ELSE b

NonBlank(value) == Strip(value) # ""

\* Planner._looks_like_application_launch
LaunchOperations == {"execute", "run", "launch", "start"}

LooksLikeApplicationLaunch(parameters) ==
    LET target == Or(parameters.target, parameters.application)
    IN \/ NonBlank(target)
       \/ NonBlank(parameters.command)
       \/ /\ parameters.requested_operation \in LaunchOperations
          /\ target # ""

\* parameters.setdefault("original_request", request)
SetDefaultRequest(parameters, request) ==
    [parameters EXCEPT !.original_request = Or(@, request)]

\* parameters = dict(intent.parameters); parameters.setdefault(...): the
\* planner's local dict and what intent.parameters holds afterwards
PlannerParametersM(in) ==
    [local |-> SetDefaultRequest(in.parameters, in.raw_input),
     kept |-> SetDefaultRequest(in.parameters, in.raw_input)]
PlannerParameters(in) ==
    [local |-> SetDefaultRequest(in.parameters, in.raw_input),
     kept |-> in.parameters]

\* Planner._build_launch_step: the launch step's parameters
BuildLaunchParameters(parameters, request) ==
    LET launch == SetDefaultRequest(parameters, request)
    IN IF launch.target = "" /\ NonBlank(launch.application)
       THEN [launch EXCEPT !.target = Strip(launch.application)]
       ELSE launch

\* low_level._extract_explicit_target: "" when there is none
ExtractExplicitTarget(parameters) ==
    IF NonBlank(parameters.target) THEN Strip(parameters.target)
    ELSE IF NonBlank(parameters.command) THEN parameters.command
    ELSE ""

\* low_level._resolve_executable or _default_executable on one token
ResolveToken(token, installed) ==
    IF installed THEN "/usr/local/bin/" \o token ELSE "/usr/bin/" \o token

\* low_level.infer_low_level_target: "" when no token of the request can be
\* an executable
InferLowLevelTarget(request, installed) ==
    CASE request \in {"vlc", "mpv"} -> ResolveToken(request, installed)
      [] OTHER -> ""

\* low_level.generate_assembly_launcher
GenerateLauncher(executable) == "launcher:" \o executable

\* low_level.prepare_low_level_parameters
PrepareLowLevelParameters(parameters, installed) ==
    LET explicit == ExtractExplicitTarget(parameters)
        request == Strip(parameters.original_request)
        target == IF explicit # "" THEN explicit
                  ELSE IF request # ""
                  THEN InferLowLevelTarget(request, installed)
                  ELSE ""
    IN IF NonBlank(parameters.source) THEN parameters
       ELSE IF target = ""
       THEN [parameters EXCEPT
                !.candidate = IF NonBlank(parameters.target)
                              THEN Strip(parameters.target) ELSE ""]
       ELSE [parameters EXCEPT !.source = GenerateLauncher(target),
                               !.synthesized = TRUE,
                               !.candidate = target]

\* the inspect_command step's parameters, filtered of empty values
InspectParameters(parameters, request, installed) ==
    LET low == PrepareLowLevelParameters(parameters, installed)
    IN [EmptyParameters EXCEPT !.target = Strip(low.candidate),
                               !.candidate = Strip(low.candidate),
                               !.original_request = request,
                               !.synthesized = low.synthesized]

\* the parameters each template gives the step with this id
StepParameters(id, parameters, request, installed) ==
    CASE id = "launch_application" -> BuildLaunchParameters(parameters, request)
      [] id = "inspect_command" ->
            InspectParameters(parameters, request, installed)
      [] id = "compile_and_run" ->
            PrepareLowLevelParameters(parameters, installed)
      [] id \in {"collect_metrics", "analyze_hotspots",
                 "ensure_pointer_dependencies"} ->
            [EmptyParameters EXCEPT !.original_request = request]
      [] id \in {"capture_pointer_state", "refresh_package_index",
                 "apply_updates"} -> EmptyParameters
      [] OTHER -> parameters

\* raw_source = parameters.get("source") or parameters.get("code");
\* isinstance(raw_source, str) and raw_source.strip()
HasSource(parameters) == NonBlank(parameters.source)

\* Planner.create_plan with no client: the steps, each with its parameters,
\* and the intent object as the call leaves it
HeuristicCreatePlan(in, installed) ==
    LET params == PlannerParameters(in)
        steps == HeuristicPlan(Intent(in.action,
                                      LooksLikeApplicationLaunch(params.local),
                                      HasSource(params.local)))
    IN [steps |-> [i \in 1..Len(steps) |->
                      [id |-> steps[i].id, action |-> steps[i].action,
                       depends_on |-> steps[i].depends_on,
                       parameters |-> StepParameters(steps[i].id, params.local,
                                                     in.raw_input, installed)]],
        intent |-> [in EXCEPT !.parameters = params.kept]]

PlanRequests == {"vlc", "a /"}

PlanParameters ==
    {Parameters(target, application, command, source, operation, original) :
         target \in {"", " ", "vlc"}, application \in {"", "vlc"},
         command \in {"", "ls"}, source \in {"", "int main"},
         operation \in {"", "run"}, original \in {"", "mpv"}}

PlanIntents ==
    {[raw_input |-> request, action |-> action, parameters |-> parameters] :
         request \in PlanRequests, action \in TemplateActions,
         parameters \in PlanParameters}

InitPlanTwice ==
    /\ OrchIdle
    /\ call \in {[fn |-> "planner.create_plan_twice", calls |-> 0,
                  intent |-> in, given |-> in, installed |-> installed] :
                     in \in PlanIntents, installed \in BOOLEAN}
    /\ ret = NoReturn

\* one create_plan call on the intent object as the previous call left it
PlanCall ==
    /\ call.fn = "planner.create_plan_twice"
    /\ call.calls < 2
    /\ LET made == HeuristicCreatePlan(call.intent, call.installed)
       IN /\ ret' = [kind |-> "plans",
                     plans |-> IF call.calls = 0 THEN <<made.steps>>
                               ELSE Append(ret.plans, made.steps)]
          /\ call' = [call EXCEPT !.calls = @ + 1, !.intent = made.intent]
    /\ UNCHANGED orch_vars

SpecPlanTwice == InitPlanTwice /\ [][PlanCall]_vars

PlannedOnce == call.fn = "planner.create_plan_twice" /\ call.calls >= 1

PlannedTwice == call.fn = "planner.create_plan_twice" /\ call.calls = 2

C22_LaunchOverride ==
    (PlannedOnce
        /\ LooksLikeApplicationLaunch(
               SetDefaultRequest(call.given.parameters,
                                 call.given.raw_input))) =>
        /\ Len(ret.plans[1]) = 1
        /\ ret.plans[1][1].action = "system.launch_application"

\* the low-level plan carries a launcher synthesized for a resolved target
TargetResolved(p) == Last(p).parameters.synthesized

\* C23: for a system.execute_low_level intent without source code, when a
\* target executable is resolved the plan is the single compile_and_run step
\* carrying the synthesized launcher, with no inspection step; when none is
\* resolved the plan is inspect_command followed by compile_and_run, which
\* depends on it.
C23_InspectOnlyUnresolved ==
    (PlannedOnce
        /\ call.given.action = "system.execute_low_level"
        /\ ~HasSource(call.given.parameters)) =>
        LET p == ret.plans[1]
        IN IF TargetResolved(p)
           THEN /\ Len(p) = 1
                /\ p[1].id = "compile_and_run"
                /\ p[1].depends_on = <<>>
           ELSE /\ Len(p) = 2
                /\ p[1].id = "inspect_command"
                /\ p[2].id = "compile_and_run"
                /\ p[2].depends_on = <<"inspect_command">>

(***************************************************************************)
(* orchestrate with an observer whose callbacks do something                *)
(***************************************************************************)
\* what the attached observer's callbacks do: nothing, raise, or write to
\* the object they are handed
ObserverBehaviours == {"passive", "raises", "mutates"}

InitObserved ==
    /\ OrchInit
    /\ client = FALSE
    /\ intent.action # "system.update"
    /\ call \in {[fn |-> "observer", returned |-> FALSE, behaviour |-> b] :
                     b \in ObserverBehaviours}
    /\ ret = NoReturn

\* the callback the orchestrator makes next from this position
NextCallback ==
    CASE pc = "start" -> OnStage("start")
      [] pc = "loop" -> <<"on_step_start", "">>
      [] OTHER -> OnReview

\* `if observer: observer.on_...(...)` with a callback that raises: the
\* exception leaves orchestrate, nothing is returned
ObserverRaises ==
    /\ call.fn = "observer"
    /\ call.behaviour = "raises"
    /\ pc \in {"start", "loop", "review"}
    /\ pc' = "error"
    /\ error' = "observer callback raised"
    /\ events' = Append(events, NextCallback)
    /\ UNCHANGED <<client, execute, intent, plan, safety, safety_plan,
                   approved_ids, completed_ids, pending_steps,
                   execution_results, reviews, call, ret>>

\* observer.on_step_result(result) writing result.status before
\* `if result.status not in {"blocked", "error"}` reads it
ObserverMutates ==
    /\ call.fn = "observer"
    /\ call.behaviour = "mutates"
    /\ pc = "review"
    /\ Len(execution_results) <= MaxHistory
    /\ Last(execution_results).status \in FailureStatuses
    /\ execution_results' =
          [execution_results EXCEPT ![Len(execution_results)].status = "success"]
    /\ completed_ids' = completed_ids \cup {Last(execution_results).step_id}
    /\ UNCHANGED <<pc, client, execute, intent, plan, safety, safety_plan,
                   approved_ids, pending_steps, reviews, error, events,
                   call, ret>>

NextObserved == Next \/ ObserverRaises \/ ObserverMutates

SpecObserved == InitObserved /\ [][NextObserved]_vars

\* C24: observer non-interference. Whatever the observer's callbacks do,
\* every step of orchestrate with the observer attached is a step of
\* orchestrate itself: the plan, safety report, execution list, reviews and
\* error change as they do with no observer.
C24_ObserverTransparent == [][Next]_vars

(***************************************************************************)
(* orchestrate with a ContextFabric attached                               *)
(***************************************************************************)
\* ContextFabric: the metadata keys orchestrate writes, the event bus
\* history (event types), and the number of event nodes in the graph
Fabric(last_request, last_intent_action, history, event_nodes) ==
    [metadata |-> [last_request |-> last_request,
                   last_intent_action |-> last_intent_action],
     history |-> history, event_nodes |-> event_nodes]

\* ContextFabric.record_event: emit on the bus, upsert the event node
\* executed_steps is the payload's entry of that name, -1 when the payload
\* has none
ContextEvent(event_type, executed_steps) ==
    [event_type |-> event_type, executed_steps |-> executed_steps]

RecordEvent(fabric, event_type, executed_steps) ==
    [fabric EXCEPT !.history = Append(@, ContextEvent(event_type, executed_steps)),
                   !.event_nodes = @ + 1]

\* "executed_steps": len(execution_results)
CompletedStepsM(results) ==
    Cardinality({i \in 1..Len(results) :
                     results[i].status \notin FailureStatuses})
CompletedSteps(results) == Len(results)

\* ContextFabric.snapshot(event_limit): a copy of the metadata and the
\* last events
FabricEventLimit == 2

Snapshot(fabric) ==
    [metadata |-> fabric.metadata,
     events |-> SubSeq(fabric.history,
                       IF Len(fabric.history) > FabricEventLimit
                       THEN Len(fabric.history) - FabricEventLimit + 1 ELSE 1,
                       Len(fabric.history))]

Fabrics ==
    {Fabric(request, action, history, Len(history)) :
         request \in {"", "earlier"},
         action \in {""},
         history \in {<<>>,
                      <<ContextEvent("fabric.file.updated", -1),
                        ContextEvent("orchestrator.completed", 0)>>}}

InitFabric ==
    /\ OrchInit
    /\ client = FALSE
    /\ intent.action # "system.update"
    /\ call \in {[fn |-> "fabric", returned |-> FALSE, stage |-> "attached",
                  given |-> f, fabric |-> f, snapshot |-> Snapshot(f)] :
                     f \in Fabrics}
    /\ ret = NoReturn

\* if self.fabric: merge_metadata, record_event("orchestrator.request"),
\* snapshot, combined_context.setdefault("fabric", ...), before the parse
FabricRequest ==
    /\ call.fn = "fabric"
    /\ call.stage = "attached"
    /\ pc = "start"
    /\ LET merged == [call.fabric EXCEPT !.metadata.last_request = "request"]
           recorded == RecordEvent(merged, "orchestrator.request", -1)
       IN call' = [call EXCEPT !.stage = "merged", !.fabric = recorded,
                               !.snapshot = Snapshot(recorded)]
    /\ UNCHANGED <<orch_vars, ret>>

\* the rest of the call, from IntentParser.parse on
FabricOrchestrate ==
    /\ call.fn = "fabric"
    /\ call.stage = "merged"
    /\ Next

\* if self.fabric: merge_metadata, record_event("orchestrator.completed"),
\* after the loop of a call that did not raise
FabricCompleted ==
    /\ call.fn = "fabric"
    /\ call.stage = "merged"
    /\ pc = "done"
    /\ LET merged == [call.fabric EXCEPT
                         !.metadata.last_intent_action = intent.action]
       IN call' = [call EXCEPT
                      !.stage = "completed",
                      !.fabric =
                          RecordEvent(merged, "orchestrator.completed",
                                      CompletedSteps(execution_results))]
    /\ UNCHANGED <<orch_vars, ret>>

NextFabric == FabricRequest \/ FabricOrchestrate \/ FabricCompleted

SpecFabric == InitFabric /\ [][NextFabric]_vars

\* C25: context merging only reads the fabric. Until the intent has been
\* parsed the fabric's metadata, event history and graph are as the caller
\* handed them over; the fabric differs from that only once the call has
\* completed.
C25_FabricReadOnly ==
    (call.fn = "fabric" /\ call.fabric # call.given) =>
        pc = "done" /\ call.stage = "completed"

\* the index of the last review of the loop that delivered another plan
\* object, 0 when there is none
LastReplacement ==
    LET at == {i \in 1..Len(reviews) : reviews[i].replaced}
    IN IF at = {} THEN 0 ELSE CHOOSE i \in at : \A j \in at : j <= i

\* C26: the returned result is self-consistent. Its plan is the plan of the
\* last review that replaced it, the plan changes after planning only by
\* such a replacement (so it is the initial plan if there was none), and its
\* safety report was computed for that plan: the approved and blocked ids
\* together are the ids of the plan.
C26_ResultConsistent ==
    /\ [](pc = "done" =>
             /\ safety_plan = plan
             /\ Ids(safety.approved_steps) \cup Ids(safety.blocked_steps)
                    = Ids(plan)
             /\ (execute /\ LastReplacement > 0) =>
                    plan = reviews[LastReplacement].plan)
    /\ [][(pc # "start" /\ plan' # plan) =>
             /\ execute
             /\ Last(reviews').replaced
             /\ plan' = Last(reviews').plan]_vars

\* C26 witness: a returned call whose plan came from a review and holds a
\* step the initial plan did not have, listed in the safety report.
C26_Witness ==
    /\ pc = "done"
    /\ execute
    /\ LastReplacement > 0
    /\ Len(plan) >= 2
    /\ Ids(safety.approved_steps) \cup Ids(safety.blocked_steps) = Ids(plan)

(***************************************************************************)
(* IntentParser.parse; confidence in hundredths                            *)
(***************************************************************************)
\* the keyword lists of _heuristic_parse, in the order of its elif chain
KeywordGroups ==
    <<"pointer", "terminal", "resource", "process", "ui", "schedule",
      "update", "network">>

\* the action and confidence of the branch taken for each keyword list
KeywordAction(group) ==
    CASE group = "pointer" -> <<"ui.control_pointer", 80>>
      [] group = "terminal" -> <<"system.launch_application", 75>>
      [] group = "resource" -> <<"system.optimize_resources", 70>>
      [] group = "process" -> <<"process.manage", 70>>
      [] group = "ui" -> <<"ui.assist_user", 65>>
      [] group = "schedule" -> <<"system.schedule_task", 60>>
      [] group = "update" -> <<"system.update", 50>>
      [] group = "network" -> <<"system.schedule_task", 40>>

ParsedIntent(action, confidence, path) ==
    [action |-> action, confidence |-> confidence, path |-> path]

\* IntentParser._heuristic_parse on a request in which these keyword lists
\* have a match
HeuristicParse(matched) ==
    LET hits == {i \in 1..Len(KeywordGroups) : KeywordGroups[i] \in matched}
    IN IF hits = {}
       THEN ParsedIntent("analysis.review_request", 40, "heuristic")
       ELSE LET first == CHOOSE i \in hits : \A j \in hits : i <= j
                branch == KeywordAction(KeywordGroups[first])
            IN ParsedIntent(branch[1], branch[2], "heuristic")

\* a decoded reply of the intent model: its action and confidence keys
IntentReply(action, confidence) ==
    [kind |-> "ok", action |-> action, confidence |-> confidence]

\* IntentParser._parse_with_model: str(action or default),
\* float(confidence or 0.0)
ParseWithModel(reply) ==
    ParsedIntent(OrText(reply.action, "analysis.review_request"),
                 reply.confidence, "model")

\* IntentParser.parse
Parse(matched, reply) ==
    IF reply.kind = "ok" THEN ParseWithModel(reply)
    ELSE HeuristicParse(matched)

ReplyConfidences == {-20, 0, 50, 100, 150}

IntentReplies ==
    {NoClient, ModelFailure}
    \cup {IntentReply(action, confidence) :
              action \in {"", "process.manage"},
              confidence \in ReplyConfidences}

InitParse ==
    /\ OrchIdle
    /\ call \in {[fn |-> "intent.parse", returned |-> FALSE,
                  matched |-> m, reply |-> r] :
                     m \in SUBSET Range(KeywordGroups), r \in IntentReplies}
    /\ ret = NoReturn

ParseCall ==
    /\ call.fn = "intent.parse"
    /\ ~call.returned
    /\ ret' = Parse(call.matched, call.reply)
    /\ call' = [call EXCEPT !.returned = TRUE]
    /\ UNCHANGED orch_vars

SpecParse == InitParse /\ [][ParseCall]_vars

ParseReturned == call.fn = "intent.parse" /\ call.returned

\* C27: every Intent returned by IntentParser.parse has a confidence within
\* [0, 1], on the model path and on the heuristic path; on the heuristic
\* path it is one of the fixed values within [0.4, 0.8], and 0.4 with action
\* analysis.review_request when no keyword matches.
C27_ConfidenceRange ==
    ParseReturned =>
        /\ ret.confidence >= 0
        /\ ret.confidence <= 100
        /\ ret.path = "heuristic" =>
               /\ ret.confidence \in {40, 50, 60, 65, 70, 75, 80}
               /\ call.matched = {} =>
                      /\ ret.confidence = 40
                      /\ ret.action = "analysis.review_request"

(***************************************************************************)
(* Planner.review_execution and the plan object it is given                *)
(***************************************************************************)
FramePlans ==
    {<<PlanStep("a", "system.run_command", NoParameters, <<>>)>>,
     <<PlanStep("a", "system.run_command", NoParameters, <<>>),
       PlanStep("b", "system.run_command", NoParameters, <<"a">>)>>}

FrameResults ==
    UNION {{ExecutionResult(id, st, NoMessage, m),
            ExecutionResult(id, st, m, NoMessage)} :
               id \in {"a", "b"}, st \in {"success", "dry_run", "error"},
               m \in {TextMessage, ModuleMessage("numpy"),
                      CommandMessage("x.y")}}

\* the reply's plan object repeating the steps of the plan it was sent
EchoPayload(p) ==
    [i \in 1..Len(p) |->
        [id |-> p[i].id, action |-> p[i].action,
         parameters |-> p[i].parameters, depends_on |-> p[i].depends_on]]

FrameReplies(p) ==
    {NoClient, ModelFailure,
     ReviewReply(FALSE, <<>>, <<>>, FALSE),
     ReviewReply(TRUE, EchoPayload(p), <<>>, FALSE),
     ReviewReply(TRUE, <<StepPayload("b", "system.run_command")>>, <<>>, TRUE)}

InitFrame ==
    /\ OrchIdle
    /\ call \in UNION {{[fn |-> "planner.review_frame", returned |-> FALSE,
                         plan |-> p, given_after |-> p, history |-> h,
                         resp |-> r] :
                            h \in SeqsUpTo(FrameResults, 1),
                            r \in FrameReplies(p)} : p \in FramePlans}
    /\ ret = NoReturn

\* the review, and the given plan object as the call leaves it
FrameCall ==
    /\ call.fn = "planner.review_frame"
    /\ ~call.returned
    /\ ret' = ReviewExecution("system.update", call.plan, call.history,
                              call.resp)
    /\ call' = [call EXCEPT
                   !.returned = TRUE,
                   !.given_after =
                       IF call.resp.kind = "ok" THEN call.plan
                       ELSE GivenAfterHeuristicReview(call.plan, call.history)]
    /\ UNCHANGED orch_vars

SpecFrame == InitFrame /\ [][FrameCall]_vars

FrameReturned == call.fn = "planner.review_frame" /\ call.returned

\* C28 as stated: review_execution leaves the given plan's step list and
\* steps as they were; a changed plan comes only as a new object in
\* review.plan, and when the steps are unchanged review.plan is the given
\* object itself.
C28_NoMutation ==
    FrameReturned =>
        /\ call.given_after = call.plan
        /\ ret.plan # call.plan => ret.replaced
        /\ ret.plan = call.plan => ~ret.replaced

\* C28 amended: review_execution leaves the given plan's step list and
\* steps as they were; a changed plan comes only as a new object in
\* review.plan. review.plan is the given object itself exactly when the
\* heuristic review injects no step or the model reply carries no plan
\* object; a model reply that carries a plan object always yields a new
\* ActionPlan, also when its steps equal those of the given plan.
C28_NoMutationAmended ==
    FrameReturned =>
        /\ call.given_after = call.plan
        /\ ret.plan # call.plan => ret.replaced
        /\ ~ret.replaced => ret.plan = call.plan
        /\ ret.replaced <=>
               IF call.resp.kind = "ok" THEN call.resp.has_plan
               ELSE Injects(call.plan, call.history)

\* C28 witness: the heuristic review injected a step before the failing
\* step b and gave b a new depends_on in the new plan, while the given plan
\* still holds b as it was.
C28_Witness ==
    /\ FrameReturned
    /\ call.resp = NoClient
    /\ ret.replaced
    /\ Len(call.plan) = 2
    /\ Len(ret.plan) = 3
    /\ ret.plan[3].id = "b"
    /\ ret.plan[3].depends_on # call.plan[2].depends_on
    /\ call.given_after[2].depends_on = <<"a">>

(***************************************************************************)
(* execution.py: ShellCommandCapability.execute                            *)
(***************************************************************************)
\* Text is a sequence of characters here, so that startswith and split are
\* computed on it. A token of a list command that is not a str is NotText.
Apt == <<"a", "p", "t">>
Systemctl == <<"s", "y", "s", "t", "e", "m", "c", "t", "l">>
AptGet == Apt \o <<"-", "g", "e", "t">>
Ap == <<"a", "p">>
Rm == <<"r", "m">>
Space == <<" ">>
NotText == <<"<int>">>

\* allowed_prefixes.values() of the default capability
AllowedPrefixes == {Apt, Systemctl}

\* executable.startswith(prefix)
StartsWith(executable, prefix) ==
    /\ Len(prefix) <= Len(executable)
    /\ SubSeq(executable, 1, Len(prefix)) = prefix

\* command.split(): the maximal runs of characters other than whitespace
RECURSIVE SplitFrom(_, _, _)
SplitFrom(text, i, word) ==
    IF i > Len(text)
    THEN IF word = <<>> THEN <<>> ELSE <<word>>
    ELSE IF text[i] = " "
         THEN (IF word = <<>> THEN <<>> ELSE <<word>>)
              \o SplitFrom(text, i + 1, <<>>)
         ELSE SplitFrom(text, i + 1, Append(word, text[i]))

Split(text) == SplitFrom(text, 1, <<>>)

\* step.parameters.get("command"): absent or None, a str, a list of tokens,
\* or a value of another type, which is falsy (0) or not (5, a dict, a tuple)
NoCommand == [type |-> "none", value |-> <<>>, truthy |-> FALSE]
TextCommand(text) == [type |-> "str", value |-> text, truthy |-> text # <<>>]
ListCommand(tokens) ==
    [type |-> "list", value |-> tokens, truthy |-> tokens # <<>>]
OtherCommand(truthy) == [type |-> "other", value |-> <<>>, truthy |-> truthy]

ShellResult(status, message, ran) ==
    [kind |-> "result", status |-> status, error |-> message, ran |-> ran]
ShellRaises(exception) ==
    [kind |-> "raises", status |-> "", error |-> exception, ran |-> <<>>]

\* subprocess.run(command_list, ...): process is what the operating system
\* does with the command. ran is the argument list of the process started.
SubprocessRun(command_list, process) ==
    IF \E i \in 1..Len(command_list) : command_list[i] = NotText
    THEN ShellRaises("TypeError")
    ELSE CASE process = "not_found" -> ShellResult("error", "not found", <<>>)
           [] process = "os_error" -> ShellRaises("OSError")
           [] process = "exit_nonzero" ->
                  ShellResult("error", "stderr", command_list)
           [] OTHER -> ShellResult("success", "", command_list)

ShellExecute(command, process) ==
    IF ~command.truthy
    THEN ShellResult("error", "Missing command", <<>>)
    ELSE IF command.type \notin {"list", "str"}
    THEN ShellResult("error", "Command must be string or list", <<>>)
    ELSE LET command_list == IF command.type = "str"
                             THEN Split(command.value)
                             ELSE command.value
             executable == command_list[1]
         IN IF command_list = <<>>
            THEN ShellResult("error", "Command is empty", <<>>)
            ELSE IF executable = NotText
            THEN ShellRaises("AttributeError")
            ELSE IF ~\E prefix \in AllowedPrefixes :
                        StartsWith(executable, prefix)
            THEN ShellResult("blocked", "not in allow list", <<>>)
            ELSE SubprocessRun(command_list, process)

ShellTokens == {Apt, AptGet, Ap, Rm, Systemctl, <<>>, NotText}

ShellCommands ==
    {NoCommand, OtherCommand(FALSE), OtherCommand(TRUE)}
    \cup {TextCommand(t) :
              t \in {<<>>, Space, Apt \o Space \o Rm, Space \o AptGet,
                     Rm \o Space \o Apt, Ap}}
    \cup {ListCommand(<<>>)}
    \cup {ListCommand(<<t>>) : t \in ShellTokens}
    \cup {ListCommand(<<t, u>>) : t \in {Apt, Rm}, u \in {Rm, NotText}}

Processes == {"exit_zero", "exit_nonzero", "not_found", "os_error"}

InitShell ==
    /\ OrchIdle
    /\ call \in {[fn |-> "shell.execute", returned |-> FALSE,
                  command |-> c, process |-> o] :
                     c \in ShellCommands, o \in Processes}
    /\ ret = NoReturn

ShellCall ==
    /\ call.fn = "shell.execute"
    /\ ~call.returned
    /\ ret' = ShellExecute(call.command, call.process)
    /\ call' = [call EXCEPT !.returned = TRUE]
    /\ UNCHANGED orch_vars

SpecShell == InitShell /\ [][ShellCall]_vars

ShellReturned == call.fn = "shell.execute" /\ call.returned

\* the tokens of the command as given, when it is a str or a list
GivenTokens(command) ==
    IF command.type = "str" THEN Split(command.value) ELSE command.value

\* a command that is a str or a list of str with at least one token
WellTyped(command) ==
    /\ command.type \in {"str", "list"}
    /\ GivenTokens(command) # <<>>
    /\ \A i \in 1..Len(GivenTokens(command)) :
           GivenTokens(command)[i] # NotText

\* C29: ShellCommandCapability starts a subprocess only when the first
\* token of the command starts with an allow-listed prefix; for any other
\* executable it returns status blocked and starts nothing; for a missing,
\* empty or wrongly typed command it returns status error and starts
\* nothing.
C29_AllowList ==
    ShellReturned =>
        LET tokens == GivenTokens(call.command)
            allowed == \E prefix \in AllowedPrefixes :
                           StartsWith(tokens[1], prefix)
        IN /\ ret.ran # <<>> => WellTyped(call.command) /\ allowed
           /\ WellTyped(call.command) /\ ~allowed =>
                  ret.kind = "result" /\ ret.status = "blocked"
                  /\ ret.ran = <<>>
           /\ ~WellTyped(call.command) =>
                  ret.kind = "result" /\ ret.status = "error"
                  /\ ret.ran = <<>>

(***************************************************************************)
(* Two orchestrate calls on one orchestrator instance, in two threads      *)
(***************************************************************************)
\* orchestrate binds request, intent, plan, safety, approved_ids,
\* completed_ids, pending_steps, execution_results and reviews as names of
\* its own frame. When a thread is resumed, such a name holds what that
\* thread bound to it (mine); an attribute of the shared instance would hold
\* what the thread that ran last stored (current).
LocalM(mine, current) == current
Local(mine, current) == mine

\* the frame of the running call
Frame ==
    [pc |-> pc, execute |-> execute, intent |-> intent, plan |-> plan,
     safety |-> safety, safety_plan |-> safety_plan,
     approved_ids |-> approved_ids, completed_ids |-> completed_ids,
     pending_steps |-> pending_steps,
     execution_results |-> execution_results, reviews |-> reviews,
     error |-> error, events |-> events]

\* the frames a second call of the same instance can start from
StartFrames ==
    {[pc |-> "start", execute |-> e, intent |-> i, plan |-> <<>>,
      safety |-> EmptyReport, safety_plan |-> <<>>, approved_ids |-> {},
      completed_ids |-> {}, pending_steps |-> <<>>,
      execution_results |-> <<>>, reviews |-> <<>>, error |-> "",
      events |-> <<>>] :
         e \in BOOLEAN,
         i \in {Intent("analysis.review_request", FALSE, FALSE)}}

\* The instance has no model client; the variables hold the frame of the
\* thread that runs (call.active), call.suspended the frame of the other.
InitConcurrent ==
    /\ OrchInit
    /\ client = FALSE
    /\ intent.action # "system.update"
    /\ call \in {[fn |-> "concurrent", returned |-> FALSE, active |-> 1,
                  suspended |-> f] : f \in StartFrames}
    /\ ret = NoReturn

\* the scheduler suspends the running thread and resumes the other
Switch ==
    /\ call.fn = "concurrent"
    /\ pc' = call.suspended.pc
    /\ execute' = call.suspended.execute
    /\ intent' = Local(call.suspended.intent, intent)
    /\ plan' = Local(call.suspended.plan, plan)
    /\ safety' = Local(call.suspended.safety, safety)
    /\ safety_plan' = Local(call.suspended.safety_plan, safety_plan)
    /\ approved_ids' = Local(call.suspended.approved_ids, approved_ids)
    /\ completed_ids' = Local(call.suspended.completed_ids, completed_ids)
    /\ pending_steps' = Local(call.suspended.pending_steps, pending_steps)
    /\ execution_results' =
           Local(call.suspended.execution_results, execution_results)
    /\ reviews' = Local(call.suspended.reviews, reviews)
    /\ error' = call.suspended.error
    /\ events' = call.suspended.events
    /\ call' = [call EXCEPT !.active = 3 - @, !.suspended = Frame]
    /\ UNCHANGED <<client, ret>>

NextConcurrent == Next \/ Switch

SpecConcurrent == InitConcurrent /\ [][NextConcurrent]_vars

\* what call i holds
CallState(i) == IF call.active = i THEN Frame ELSE call.suspended

Runnable ==
    {i \in 1..Len(plan) :
         plan[i].id \in approved_ids /\ plan[i].id \notin completed_ids}

\* C31: the step orchestrate executes next is the first step, in the order
\* of the current plan, that is approved and not yet completed, so no step
\* runs while an approved step placed before it is uncompleted; the
\* next_steps of the reviews play no part in the choice.
C31_StrictOrder ==
    [][execution_results' # execution_results =>
          /\ Runnable # {}
          /\ Last(execution_results').step_id =
                 plan[CHOOSE i \in Runnable : \A j \in Runnable : i <= j].id]_vars

\* C31 witness: a step was executed that the review before it did not put
\* first in its next_steps.
C31_Witness ==
    /\ pc = "review"
    /\ Len(execution_results) >= 2
    /\ reviews # <<>>
    /\ Last(reviews).next_steps # <<>>
    /\ Last(reviews).next_steps[1].id # Last(execution_results).step_id

(***************************************************************************)
(* Remediation steps and the retry of the step they were injected for      *)
(***************************************************************************)
\* review k of the loop injected a remediation step for the step whose
\* result it reviewed: the heuristic review puts it right before that step
InjectedAt(k) ==
    /\ k \in 1..Len(reviews)
    /\ k <= Len(execution_results)
    /\ reviews[k].replaced
    /\ FirstIndex(reviews[k].plan, execution_results[k].step_id) > 1

\* the remediation step injected by review k
Remediation(k) ==
    reviews[k].plan[FirstIndex(reviews[k].plan,
                               execution_results[k].step_id) - 1]

\* the remediation step of review k produced a non-failure result since
RemediatedSince(k) ==
    \E j \in (k + 1)..Len(execution_results) :
        /\ execution_results[j].step_id = Remediation(k).id
        /\ execution_results[j].status \notin FailureStatuses

\* C32: once a remediation step was injected for a failing step S and
\* approved, S is not attempted again before that remediation step has
\* produced a non-failure result (so when the remediation step fails 3
\* times and the run ends, S was not retried).
C32_RemediationFirst ==
    [][execution_results' # execution_results =>
          \A k \in 1..Len(reviews) :
              (/\ InjectedAt(k)
               /\ execution_results[k].step_id
                      = Last(execution_results').step_id
               /\ Remediation(k).id \in approved_ids)
              => RemediatedSince(k)]_vars

(***************************************************************************)
(* orchestrate with a model client whose reviews never replace the plan    *)
(***************************************************************************)
MaxModelHistory == 4

InitModelRetry ==
    /\ OrchInit
    /\ client
    /\ execute
    /\ intent.action = "analysis.review_request"
    /\ call = [fn |-> "model_retry", returned |-> FALSE]
    /\ ret = NoReturn

\* the steps of orchestrate in which the review, from the model or from the
\* heuristic fallback, returns the plan object it was given
ModelRetryNext ==
    /\ Next
    /\ Len(execution_results') <= MaxModelHistory
    /\ reviews' # reviews => ~Last(reviews').replaced

SpecModelRetry == InitModelRetry /\ [][ModelRetryNext]_vars

\* C33: also when the reviews come from the model (well-formed replies of
\* any content) no step id is executed more than 3 times in one call.
C33_ModelRetryBound ==
    \A i \in 1..Len(execution_results) :
        Executions(execution_results[i].step_id) <= 3

\* C34: the heuristic review replans only after a failure: when the latest
\* result has status success or dry_run, review.plan is the plan object
\* that was passed in and holds no added step, whatever the result's text.
C34_ReplanOnlyOnFailure ==
    (/\ FrameReturned
     /\ call.resp.kind # "ok"
     /\ call.history # <<>>
     /\ Last(call.history).status \in {"success", "dry_run"})
    => ~ret.replaced /\ Len(ret.plan) = Len(call.plan)

\* C35: every action the heuristic planner puts into a step, in a template
\* or in an injected remediation step, has a capability in the registry
\* built by with_client, so no step of a heuristic plan is blocked by the
\* executor for want of a capability.
C35_AllRegistered ==
    ~client =>
        \A i \in 1..Len(plan) : plan[i].action \in DryRunActions \cup LiveActions

\* orchestrate with a planner that has no model client (or whose model
\* calls all fail) next to a safety checker that has one
InitHeuristicPlanner ==
    /\ pc = "start"
    /\ client = TRUE
    /\ execute = TRUE
    /\ intent = Intent("system.update", FALSE, FALSE)
    /\ plan = <<>>
    /\ safety = EmptyReport
    /\ safety_plan = <<>>
    /\ approved_ids = {}
    /\ completed_ids = {}
    /\ pending_steps = <<>>
    /\ execution_results = <<>>
    /\ reviews = <<>>
    /\ error = ""
    /\ events = <<>>
    /\ call = [fn |-> "heuristic_planner", returned |-> FALSE]
    /\ ret = NoReturn

\* the steps of orchestrate in which plan and review are the heuristic ones
HeuristicPlannerNext ==
    /\ Next
    /\ Len(execution_results') <= MaxModelHistory
    /\ pc = "start" => plan' = CreatePlan(intent, NoClient)
    /\ reviews' # reviews =>
           Last(reviews') = HeuristicReview(plan, execution_results')

SpecHeuristicPlanner == InitHeuristicPlanner /\ [][HeuristicPlannerNext]_vars

\* C36: with the heuristic planner, a call with execute = true that returns
\* after executing at least one step has complete = true in its last
\* review: the loop never ends for want of approved pending steps while the
\* last review is not complete.
C36_EndsComplete ==
    (execute /\ pc = "done" /\ execution_results # <<>>)
    => reviews # <<>> /\ Last(reviews).complete

InitFabricModel ==
    /\ OrchInit
    /\ client
    /\ call \in {[fn |-> "fabric", returned |-> FALSE, stage |-> "attached",
                  given |-> f, fabric |-> f, snapshot |-> Snapshot(f)] :
                     f \in {Fabric("earlier", "",
                                   <<ContextEvent("orchestrator.request", -1),
                                     ContextEvent("orchestrator.completed", 0)>>,
                                   2)}}
    /\ ret = NoReturn

SpecFabricModel == InitFabricModel /\ [][NextFabric]_vars

\* the events the call has recorded so far
Recorded ==
    SubSeq(call.fabric.history, Len(call.given.history) + 1,
           Len(call.fabric.history))

\* C38: with a fabric attached, a call that returns has recorded exactly
\* one orchestrator.request event and after it exactly one
\* orchestrator.completed event, whose executed_steps is the length of the
\* returned execution list; a call that raises OrchestrationError has
\* recorded the request event and no completed event.
C38_FabricEvents ==
    call.fn = "fabric" =>
        /\ call.stage = "completed" =>
               Recorded = <<ContextEvent("orchestrator.request", -1),
                            ContextEvent("orchestrator.completed",
                                         Len(execution_results))>>
        /\ pc = "error" =>
               Recorded = <<ContextEvent("orchestrator.request", -1)>>
        /\ (pc = "done" /\ call.stage = "merged") =>
               Recorded = <<ContextEvent("orchestrator.request", -1)>>

\* C38 witness: a call returned after executing steps of which one failed,
\* its two events recorded after those of an earlier call.
C38_Witness ==
    /\ call.fn = "fabric"
    /\ call.stage = "completed"
    /\ Len(call.fabric.history) = 4
    /\ Len(execution_results) >= 2
    /\ \E i \in 1..Len(execution_results) :
           execution_results[i].status \in FailureStatuses

\* ---------------------------------------------------------------------
\* EventBus (context/events.py): emit and history on one bus.
\* ---------------------------------------------------------------------

MaxEmits == 3
MaxBusHistory == 2
MaxLimit == 3

BusEventTypes == {"a", "b"}

\* limit=None and event_type=None of EventBus.history
NoLimit == -1
AnyEventType == ""

\* An event of the bus: its type and the position of its emission, which
\* stands for the timestamp.
BusEvent(event_type, timestamp) ==
    [event_type |-> event_type, timestamp |-> timestamp]

\* events[start:] of a Python list, start >= 0
SliceFrom(selected, start) ==
    IF start >= Len(selected) THEN <<>>
    ELSE SubSeq(selected, start + 1, Len(selected))

\* events[-limit:] of a Python list, limit >= 0: -0 is 0, the whole list;
\* a negative start counts from the end and is clamped at the beginning.
SliceLast(selected, limit) ==
    IF limit = 0 THEN SliceFrom(selected, 0)
    ELSE IF limit >= Len(selected) THEN SliceFrom(selected, 0)
    ELSE SliceFrom(selected, Len(selected) - limit)

\* self._history after emit: append, then del self._history[:overflow]
Emit(history, event, max_history) ==
    LET appended == Append(history, event)
        overflow == Len(appended) - max_history
    IN  IF Len(appended) > max_history /\ overflow > 0
        THEN SliceFrom(appended, overflow)
        ELSE appended

History(history, event_type, limit) ==
    LET selected == IF event_type # AnyEventType
                    THEN SelectSeq(history, LAMBDA e : e.event_type = event_type)
                    ELSE history
    IN  IF limit # NoLimit /\ limit >= 0
        THEN SliceLast(selected, limit)
        ELSE selected

InitEventBus ==
    /\ OrchIdle
    /\ call \in {[fn |-> "event_bus", returned |-> FALSE, max_history |-> m,
                  history |-> <<>>, emitted |-> <<>>] : m \in 0..MaxBusHistory}
    /\ ret = NoReturn

EmitCall ==
    /\ call.fn = "event_bus"
    /\ Len(call.emitted) < MaxEmits
    /\ \E t \in BusEventTypes :
           LET event == BusEvent(t, Len(call.emitted) + 1)
           IN  call' = [call EXCEPT
                   !.history = Emit(@, event, call.max_history),
                   !.emitted = Append(@, event)]
    /\ ret' = NoReturn
    /\ UNCHANGED orch_vars

HistoryCall ==
    /\ call.fn = "event_bus"
    /\ \E t \in BusEventTypes \cup {AnyEventType}, n \in {NoLimit} \cup 0..MaxLimit :
           ret' = [kind |-> "history", event_type |-> t, limit |-> n,
                   events |-> History(call.history, t, n)]
    /\ UNCHANGED call
    /\ UNCHANGED orch_vars

NextEventBus == EmitCall \/ HistoryCall

SpecEventBus == InitEventBus /\ [][NextEventBus]_vars

\* The n most recent elements of a sequence, all of it when it is shorter.
MostRecent(seq, n) ==
    IF n >= Len(seq) THEN seq
    ELSE [i \in 1..n |-> seq[Len(seq) - n + i]]

\* C39: the stored history holds at most max_history events, the most
\* recent ones emitted, in emission order; history(limit=n), n >= 0,
\* returns at most n events, the n most recent of the stored ones.
C39_BoundedHistory ==
    call.fn = "event_bus" =>
        /\ Len(call.history) <= call.max_history
        /\ call.history = MostRecent(call.emitted, call.max_history)
        /\ (ret.kind = "history" /\ ret.limit >= 0) =>
               /\ Len(ret.events) <= ret.limit
               /\ ret.event_type = AnyEventType =>
                      ret.events = MostRecent(call.history, ret.limit)

\* C39, the part the code keeps: the stored history is bounded and FIFO,
\* and a positive limit returns the most recent stored events.
C39_PositiveLimit ==
    call.fn = "event_bus" =>
        /\ Len(call.history) <= call.max_history
        /\ call.history = MostRecent(call.emitted, call.max_history)
        /\ (ret.kind = "history" /\ ret.limit > 0) =>
               /\ Len(ret.events) <= ret.limit
               /\ ret.event_type = AnyEventType =>
                      ret.events = MostRecent(call.history, ret.limit)

\* ---------------------------------------------------------------------
\* DependencyGraph (hardware/dependencies.py): the graph is built by
\* add_node, add_dependency and remove_node, then topological_sort runs
\* one iteration of its loop at a time.
\* ---------------------------------------------------------------------

MaxEdges == 3

NodeNames == {"a", "b", "c"}

\* The orders in which a Python set can be iterated.
Iterations(S) ==
    {s \in [1..Cardinality(S) -> S] : \A x \in S : \E i \in 1..Cardinality(S) : s[i] = x}

EmptyGraph ==
    [nodes |-> {}, edges |-> [n \in NodeNames |-> {}],
     reverse_edges |-> [n \in NodeNames |-> {}]]

EdgeCount(graph) ==
    Cardinality({e \in NodeNames \X NodeNames : e[2] \in graph.edges[e[1]]})

AddNodeTo(graph, name) ==
    [graph EXCEPT !.nodes = @ \cup {name}]

AddDependencyTo(graph, item, depends_on) ==
    IF item = depends_on THEN graph
    ELSE [graph EXCEPT !.edges[item] = @ \cup {depends_on},
                       !.reverse_edges[depends_on] = @ \cup {item}]

RemoveNodeFrom(graph, name) ==
    [nodes |-> graph.nodes \ {name},
     edges |-> [n \in NodeNames |->
                   IF n = name THEN {} ELSE graph.edges[n] \ {name}],
     reverse_edges |-> [n \in NodeNames |->
                   IF n = name THEN {} ELSE graph.reverse_edges[n] \ {name}]]

\* deps = self._edges.get(name, set()) & selected_set; len(deps)
InDegreeM(graph, name, selected_set) ==
    Cardinality(graph.edges[name])

InDegree(graph, name, selected_set) ==
    Cardinality(graph.edges[name] \cap selected_set)

\* The for loop over the dependents of a popped name, in the given
\* iteration order: the in-degrees and the queue after it.
RECURSIVE Release(_, _, _, _)
Release(dependents, selected_set, in_degree, queue) ==
    IF dependents = <<>> THEN [in_degree |-> in_degree, queue |-> queue]
    ELSE LET dependent == Head(dependents)
         IN  IF dependent \notin selected_set
             THEN Release(Tail(dependents), selected_set, in_degree, queue)
             ELSE LET lowered == [in_degree EXCEPT ![dependent] = @ - 1]
                  IN  Release(Tail(dependents), selected_set, lowered,
                              IF lowered[dependent] = 0
                              THEN Append(queue, dependent) ELSE queue)

InitGraph ==
    /\ OrchIdle
    /\ call = [fn |-> "topological_sort", stage |-> "build", graph |-> EmptyGraph,
               selected_set |-> {}, in_degree |-> <<>>, queue |-> <<>>,
               ordered |-> <<>>]
    /\ ret = NoReturn

AddNode ==
    /\ call.fn = "topological_sort"
    /\ call.stage = "build"
    /\ \E name \in NodeNames :
           call' = [call EXCEPT !.graph = AddNodeTo(@, name)]
    /\ UNCHANGED <<ret, orch_vars>>

AddDependency ==
    /\ call.fn = "topological_sort"
    /\ call.stage = "build"
    /\ \E item \in NodeNames, depends_on \in NodeNames :
           /\ EdgeCount(AddDependencyTo(call.graph, item, depends_on)) <= MaxEdges
           /\ call' = [call EXCEPT !.graph = AddDependencyTo(@, item, depends_on)]
    /\ UNCHANGED <<ret, orch_vars>>

RemoveNode ==
    /\ call.fn = "topological_sort"
    /\ call.stage = "build"
    /\ \E name \in NodeNames :
           call' = [call EXCEPT !.graph = RemoveNodeFrom(@, name)]
    /\ UNCHANGED <<ret, orch_vars>>

\* topological_sort up to the loop: selected_set (the names of all nodes
\* when selected is None), in_degree and the queue of the names of
\* in-degree 0, in the iteration order of the dict.
SortStart ==
    /\ call.fn = "topological_sort"
    /\ call.stage = "build"
    /\ \E selected_set \in {call.graph.nodes} \cup SUBSET NodeNames :
           LET in_degree == [name \in selected_set |->
                                InDegree(call.graph, name, selected_set)]
           IN  \E queue \in Iterations({name \in selected_set : in_degree[name] = 0}) :
                   call' = [call EXCEPT !.stage = "loop",
                                        !.selected_set = selected_set,
                                        !.in_degree = in_degree,
                                        !.queue = queue]
    /\ UNCHANGED <<ret, orch_vars>>

\* One iteration of `while queue`; self._nodes[name] raises KeyError for a
\* name that has no node.
SortStep ==
    /\ call.fn = "topological_sort"
    /\ call.stage = "loop"
    /\ call.queue # <<>>
    /\ LET name == Head(call.queue)
       IN  IF name \notin call.graph.nodes
           THEN /\ call' = [call EXCEPT !.stage = "raised"]
                /\ ret' = [kind |-> "raise", error |-> "KeyError"]
           ELSE /\ \E dependents \in Iterations(call.graph.reverse_edges[name]) :
                       LET after == Release(dependents, call.selected_set,
                                            call.in_degree, Tail(call.queue))
                       IN  call' = [call EXCEPT
                               !.ordered = Append(@, name),
                               !.in_degree = after.in_degree,
                               !.queue = after.queue]
                /\ UNCHANGED ret
    /\ UNCHANGED orch_vars

\* After the loop: DependencyCycleError when names are missing, else the
\* ordered list.
SortEnd ==
    /\ call.fn = "topological_sort"
    /\ call.stage = "loop"
    /\ call.queue = <<>>
    /\ IF Len(call.ordered) # Cardinality(call.selected_set)
       THEN /\ call' = [call EXCEPT !.stage = "raised"]
            /\ ret' = [kind |-> "raise", error |-> "DependencyCycleError"]
       ELSE /\ call' = [call EXCEPT !.stage = "returned"]
            /\ ret' = [kind |-> "return", ordered |-> call.ordered]
    /\ UNCHANGED orch_vars

NextGraph ==
    \/ AddNode
    \/ AddDependency
    \/ RemoveNode
    \/ SortStart
    \/ SortStep
    \/ SortEnd

SpecGraph == InitGraph /\ [][NextGraph]_vars

\* The names reachable from a name along at least one and at most k
\* dependency edges that stay inside S.
RECURSIVE DependsWithin(_, _, _, _)
DependsWithin(graph, S, name, k) ==
    IF k = 0 THEN {}
    ELSE LET direct == graph.edges[name] \cap S
         IN  direct \cup UNION {DependsWithin(graph, S, d, k - 1) : d \in direct}

Acyclic(graph, S) ==
    \A name \in S : name \notin DependsWithin(graph, S, name, Cardinality(S))

SortFinished ==
    /\ call.fn = "topological_sort"
    /\ call.stage \in {"returned", "raised"}
    /\ call.selected_set \subseteq call.graph.nodes

\* C40: topological_sort over selected nodes of the graph: when the edges
\* among them are acyclic it returns every selected node exactly once,
\* each after all of its selected dependencies; when they hold a cycle it
\* raises DependencyCycleError and returns nothing.
C40_TopologicalSort ==
    SortFinished =>
        IF Acyclic(call.graph, call.selected_set)
        THEN /\ ret.kind = "return"
             /\ Len(ret.ordered) = Cardinality(call.selected_set)
             /\ Range(ret.ordered) = call.selected_set
             /\ \A i \in 1..Len(ret.ordered) :
                    \A d \in call.graph.edges[ret.ordered[i]] \cap call.selected_set :
                        \E j \in 1..(i - 1) : ret.ordered[j] = d
        ELSE /\ ret.kind = "raise"
             /\ ret.error = "DependencyCycleError"

\* C40 witness: two selected nodes returned in dependency order, one of
\* them with a further dependency on a node outside the selection.
C40_Witness ==
    /\ SortFinished
    /\ ret.kind = "return"
    /\ Len(ret.ordered) = 2
    /\ call.graph.edges[ret.ordered[2]] = {ret.ordered[1]}
    /\ \E name \in call.selected_set :
           call.graph.edges[name] \ call.selected_set # {}

\* C40 witness of the cycle case: two selected nodes depend on each other
\* and the call raised.
C40_CycleWitness ==
    /\ SortFinished
    /\ ret.kind = "raise"
    /\ \E x \in call.selected_set, y \in call.selected_set :
           /\ x # y
           /\ y \in call.graph.edges[x]
           /\ x \in call.graph.edges[y]

====
